---- MODULE Spec2Model ----
(***************************************************************************)
(* Field Matching & Compliance Inference Engine of corfoqa-agent.          *)
(*                                                                         *)
(* A text is a sequence of tokens (the maximal non-blank runs of the       *)
(* string), so two strings that differ only in blank runs are the same     *)
(* text, "" is << >>, and joining with one blank is the identity.  Python  *)
(* None is the text None.  A similarity is an integer number of 1/6000:    *)
(* 0.6 * (i/u) + 0.4 * (r/100) is 3600*i/u + 24*r exactly for u <= 6.      *)
(***************************************************************************)
EXTENDS Integers, Sequences, FiniteSets, TLC

VARIABLES
    qa_file,              \* lines of the checklist file at config.qa_fields_path
    fields,               \* Matcher.fields: the discovered fields, input order
    threshold,            \* config.qa_match_threshold
    qa_fields,            \* Matcher.qa_fields
    match_results,        \* Matcher.match_results
    extra_fields,         \* Matcher.extra_fields
    found_fields_index,   \* local of _perform_matching: the dict, insertion order
    matched_found_fields, \* local of _perform_matching: the claimed keys
    pc,                   \* position inside match()
    qi,                   \* position of the loop over self.qa_fields
    fuzz_ratio,           \* what fuzz.ratio has returned so far, per pair of strings
    result,               \* the dictionary match() returned last
    calls,                \* number of match() invocations on this Matcher
    optional_fields,      \* Matcher.optional_fields
    validator,            \* the Validator and its position inside validate()
    retry,                \* a RetryStrategy and its position inside execute()
    detector,             \* a LoopDetector, the clock and its last answer
    normalizer,           \* a call of a function of utils/normalizer.py
    executions,           \* execute() calls that run at once on one RetryStrategy
    agent                 \* a FormValidationAgent inside _run_full_flow or _run_match_mode

vars == <<qa_file, fields, threshold, qa_fields, match_results, extra_fields,
          found_fields_index, matched_found_fields, pc, qi, fuzz_ratio, result,
          calls, optional_fields, validator, retry, detector, normalizer,
          executions, agent>>

\* The objects a run of the Matcher never touches.
beside_matcher == <<validator, retry, detector, normalizer, executions, agent>>

-----------------------------------------------------------------------------
(* Bounds of the model. *)

MaxLines == 2
MaxFields == 2

-----------------------------------------------------------------------------
(* Python values. *)

None == <<"<None>">>

Truthy(s) == s # None /\ s # << >>

RECURSIVE Flatten(_)
Flatten(ss) == IF ss = << >> THEN << >> ELSE Head(ss) \o Flatten(Tail(ss))

Range(s) == {s[k] : k \in 1..Len(s)}

-----------------------------------------------------------------------------
(* utils/normalizer.py and config.py *)

STOPWORDS_ES ==
    {"el", "la", "los", "las", "un", "una", "unos", "unas",
     "de", "del", "al", "y", "o", "en", "para", "por",
     "con", "sin", "sobre", "entre", "a"}

\* text.lower(), unidecode(text), the two re.sub of normalize_text, on one
\* token: the tokens it leaves.  Tokens of [a-z0-9-] only are left as they are.
FoldedTokens ==
    ("Email" :> <<"email">>) @@
    ("Nombre" :> <<"nombre">>) @@
    ("Proyecto" :> <<"proyecto">>) @@
    ("Proyecto:" :> <<"proyecto">>) @@
    ("Nom" :> <<"nom">>) @@
    ("Correo" :> <<"correo">>) @@
    ("electrónico" :> <<"electronico">>) @@
    ("Identificación" :> <<"identificacion">>) @@
    ("#" :> << >>) @@
    ("(*)" :> << >>) @@
    ("*" :> << >>) @@
    ("ID" :> <<"id">>) @@
    ("De" :> <<"de">>) @@
    ("y/o" :> <<"y", "o">>) @@
    ("RUT" :> <<"rut">>) @@
    ("Apellido" :> <<"apellido">>) @@
    ("Paterno" :> <<"paterno">>) @@
    ("Materno" :> <<"materno">>) @@
    ("Teléfono" :> <<"telefono">>) @@
    ("Razón" :> <<"razon">>) @@
    ("Social" :> <<"social">>) @@
    ("Empresa" :> <<"empresa">>) @@
    ("Giro" :> <<"giro">>) @@
    ("Comercial" :> <<"comercial">>) @@
    ("Fecha" :> <<"fecha">>) @@
    ("Inicio" :> <<"inicio">>) @@
    ("Actividades" :> <<"actividades">>) @@
    ("Dirección" :> <<"direccion">>) @@
    ("Comuna" :> <<"comuna">>) @@
    ("Región" :> <<"region">>) @@
    ("Descripción" :> <<"descripcion">>) @@
    ("Monto" :> <<"monto">>) @@
    ("Solicitado" :> <<"solicitado">>) @@
    ("Duración" :> <<"duracion">>) @@
    ("Ap" :> <<"ap">>) @@
    ("N°" :> <<"ndeg">>) @@
    ("n°" :> <<"ndeg">>)

FoldToken(w) == IF w \in DOMAIN FoldedTokens THEN FoldedTokens[w] ELSE <<w>>

\* normalize_text with the stopwords taken out of the text as given, before
\* lower() and unidecode()
normalize_text_StopwordsFirst(text, remove_stopwords) ==
    IF ~Truthy(text) THEN << >>
    ELSE LET words == IF remove_stopwords
                      THEN SelectSeq(text, LAMBDA w : w \notin STOPWORDS_ES)
                      ELSE text
         IN  Flatten([k \in 1..Len(words) |-> FoldToken(words[k])])

normalize_text(text, remove_stopwords) ==
    IF ~Truthy(text) THEN << >>
    ELSE LET words == Flatten([k \in 1..Len(text) |-> FoldToken(text[k])])
         IN  IF remove_stopwords
             THEN SelectSeq(words, LAMBDA w : w \notin STOPWORDS_ES)
             ELSE words

\* The dict of get_canonical_key, in its order.
expansions ==
    << <<"rut", <<"rol", "unico", "tributario">> >>,
       <<"run", <<"rol", "unico", "nacional">> >>,
       <<"n°", <<"numero">> >>,
       <<"nro", <<"numero">> >>,
       <<"tel", <<"telefono">> >>,
       <<"cel", <<"celular">> >>,
       <<"dir", <<"direccion">> >>,
       <<"dpto", <<"departamento">> >>,
       <<"ap", <<"apellido">> >>,
       <<"nom", <<"nombre">> >>,
       <<"fec", <<"fecha">> >>,
       <<"nac", <<"nacimiento">> >>,
       <<"pat", <<"paterno">> >>,
       <<"mat", <<"materno">> >> >>

\* The words of the model that a hyphen joins, and their two sides: \b of
\* the regular expression matches on both sides of the hyphen.
HyphenParts ==
    ("e-mail" :> <<"e", "mail">>) @@
    ("ap-paterno" :> <<"ap", "paterno">>) @@
    ("apellido-paterno" :> <<"apellido", "paterno">>)

Hyphenate(left, right) ==
    CHOOSE w \in DOMAIN HyphenParts : HyphenParts[w] = <<left, right>>

\* re.sub(r'\b' + abbr + r'\b', expanded, ...) on one word of the text.
SubToken(abbr, expanded, w) ==
    IF w = abbr THEN expanded
    ELSE IF w \in DOMAIN HyphenParts
    THEN LET left == IF HyphenParts[w][1] = abbr THEN expanded
                     ELSE <<HyphenParts[w][1]>>
             right == IF HyphenParts[w][2] = abbr THEN expanded
                      ELSE <<HyphenParts[w][2]>>
         IN  SubSeq(left, 1, Len(left) - 1)
                \o <<Hyphenate(left[Len(left)], right[1])>> \o Tail(right)
    ELSE <<w>>

\* re.sub(r'\b' + abbr + r'\b', expanded, normalized)
SubWord(abbr, expanded, normalized) ==
    Flatten([k \in 1..Len(normalized) |-> SubToken(abbr, expanded, normalized[k])])

RECURSIVE ExpandFrom(_, _)
ExpandFrom(n, normalized) ==
    IF n > Len(expansions) THEN normalized
    ELSE ExpandFrom(n + 1, SubWord(expansions[n][1], expansions[n][2], normalized))

get_canonical_key(text) == ExpandFrom(1, normalize_text(text, TRUE))

extract_keywords(text) ==
    {w \in Range(normalize_text(text, TRUE)) : Len(w) >= 3}

\* In 1/60: len(intersection) / len(union) is exact for a union of up to 6.
calculate_similarity(text1, text2) ==
    LET keywords1 == extract_keywords(text1)
        keywords2 == extract_keywords(text2)
        intersection == keywords1 \cap keywords2
        union == keywords1 \cup keywords2
    IN  IF keywords1 = {} \/ keywords2 = {} THEN 0
        ELSE IF get_canonical_key(text1) = get_canonical_key(text2) THEN 60
        ELSE (Cardinality(intersection) * 60) \div Cardinality(union)

\* The dict FIELD_SYNONYMS, in its order.
FIELD_SYNONYMS ==
    << <<<<"nombre">>, << <<"nombres">>, <<"primer", "nombre">>, <<"nombre", "completo">> >> >>,
       <<<<"apellido">>, << <<"apellidos">>, <<"apellido", "completo">> >> >>,
       <<<<"apellido", "paterno">>, << <<"primer", "apellido">>, <<"ap", "paterno">> >> >>,
       <<<<"apellido", "materno">>, << <<"segundo", "apellido">>, <<"ap", "materno">> >> >>,
       <<<<"rut">>, << <<"run">>, <<"rol", "unico", "tributario">>,
                      <<"rol", "unico", "nacional">>, <<"cedula">> >> >>,
       <<<<"email">>, << <<"correo">>, <<"correo", "electronico">>, <<"e-mail">>, <<"mail">> >> >>,
       <<<<"telefono">>, << <<"tel">>, <<"fono">>, <<"celular">>, <<"movil">> >> >>,
       <<<<"direccion">>, << <<"domicilio">>, <<"dir">>, <<"calle">> >> >>,
       <<<<"fecha", "nacimiento">>, << <<"fecha", "nac">>, <<"fec", "nacimiento">>,
                                      <<"fecha", "de", "nacimiento">> >> >>,
       <<<<"razon", "social">>, << <<"nombre", "empresa">>, <<"nombre", "comercial">>,
                                  <<"empresa">> >> >>,
       <<<<"giro">>, << <<"actividad">>, <<"rubro">>, <<"giro", "comercial">> >> >> >>

NormalizedAll(syn_list) == {normalize_text(syn_list[k], TRUE) : k \in 1..Len(syn_list)}

\* The loop of find_synonyms from entry n of FIELD_SYNONYMS on: a head that
\* matches ends the loop, an alternate that matches ends only the inner loop.
RECURSIVE SynonymsFrom(_, _, _)
SynonymsFrom(n, normalized, synonyms) ==
    IF n > Len(FIELD_SYNONYMS) THEN synonyms
    ELSE LET key == FIELD_SYNONYMS[n][1]
             syn_list == FIELD_SYNONYMS[n][2]
         IN  IF normalized = normalize_text(key, TRUE)
             THEN synonyms \cup NormalizedAll(syn_list)
             ELSE IF normalized \in NormalizedAll(syn_list)
             THEN SynonymsFrom(n + 1, normalized,
                      synonyms \cup {normalize_text(key, TRUE)} \cup NormalizedAll(syn_list))
             ELSE SynonymsFrom(n + 1, normalized, synonyms)

\* find_synonyms without the loop over FIELD_SYNONYMS
find_synonyms_NoLookup(text) == {normalize_text(text, TRUE)}

find_synonyms(text) ==
    LET normalized == normalize_text(text, TRUE)
    IN  SynonymsFrom(1, normalized, {normalized})

-----------------------------------------------------------------------------
(* modes/extractor.py: the discovered fields the matcher is given.  The    *)
(* fields of the model carry a visible label or, without one, a name.      *)

FormField(label_visible, name, canonical_key) ==
    [label_visible |-> label_visible, name |-> name, canonical_key |-> canonical_key]

_generate_canonical_key(label_visible, name) ==
    IF Truthy(label_visible) THEN get_canonical_key(label_visible)
    ELSE get_canonical_key(name)

ExtractedField(label_visible, name) ==
    FormField(label_visible, name, _generate_canonical_key(label_visible, name))

-----------------------------------------------------------------------------
(* The inputs of the model. *)

\* Lines of the checklist file, already split in tokens.
Lines ==
    { <<"Email">>,
      <<"Nombre", "del", "Proyecto">>,
      <<"Proyecto", "Nombre">>,
      <<"(*)">>,
      <<"#", "Identificación">>,
      << >> }

FieldUniverse ==
    { ExtractedField(<<"Correo", "electrónico">>, None),
      ExtractedField(None, <<"mail">>),
      ExtractedField(<<"Proyecto:", "Nombre">>, None),
      ExtractedField(<<"Proyecto", "Nom">>, None),
      ExtractedField(<<"Nombre", "de", "su", "Proyecto">>, None),
      ExtractedField(<<"*">>, None) }

SeqsUpTo(S, n) == UNION {[1..m -> S] : m \in 0..n}

\* Values fuzz.ratio returns for two different non-empty strings: with equal
\* keywords they give the combined scores 0.8, 0.82, 0.9 and 0.92.
FuzzLevels == {50, 55, 75, 80}

Thresholds == {4800}

-----------------------------------------------------------------------------
(* modes/matcher.py *)

QAField(original_text) ==
    [original_text |-> original_text,
     normalized |-> normalize_text(original_text, TRUE),
     canonical_key |-> get_canonical_key(original_text),
     synonyms |-> find_synonyms(original_text)]

MatchResult(qa_field, status, found_field, similarity, match_type) ==
    [qa_field |-> qa_field, status |-> status, found_field |-> found_field,
     similarity |-> similarity, match_type |-> match_type]

\* "return None" of the three _try_ methods.
NoMatch == [none |-> TRUE]

\* _load_qa_fields with "if line" alone: comment lines become entries
LoadedFrom_KeepComments(lines) ==
    LET kept == SelectSeq(lines, LAMBDA line : line # << >>)
    IN  [k \in 1..Len(kept) |-> QAField(kept[k])]

\* for line in lines: line = line.strip(); if line and not line.startswith('#')
RECURSIVE LoadedFrom(_)
LoadedFrom(lines) ==
    IF lines = << >> THEN << >>
    ELSE LET line == Head(lines)
         IN  IF line # << >> /\ line[1] # "#"
             THEN <<QAField(line)>> \o LoadedFrom(Tail(lines))
             ELSE LoadedFrom(Tail(lines))

\* {field.canonical_key: field for field in self.fields}: a key keeps the
\* place of its first field and the value of its last one.
RECURSIVE IndexOf(_)
IndexOf(fs) ==
    IF fs = << >> THEN << >>
    ELSE LET before == IndexOf(SubSeq(fs, 1, Len(fs) - 1))
             field == fs[Len(fs)]
             item == [key |-> field.canonical_key, field |-> field]
         IN  IF \E k \in 1..Len(before) : before[k].key = item.key
             THEN [k \in 1..Len(before) |->
                      IF before[k].key = item.key THEN item ELSE before[k]]
             ELSE Append(before, item)

IndexKeys(index) == {index[k].key : k \in 1..Len(index)}

IndexGet(index, key) == (CHOOSE k \in 1..Len(index) : index[k].key = key)

\* _try_exact_match without "if found_field.canonical_key not in matched"
_try_exact_match_AnyField(qa_field, index, matched) ==
    IF qa_field.canonical_key \in IndexKeys(index)
    THEN MatchResult(qa_field.original_text, "PRESENTE",
                     index[IndexGet(index, qa_field.canonical_key)].field.canonical_key,
                     6000, "exact")
    ELSE NoMatch

\* _try_exact_match that takes an empty key for no key
_try_exact_match_NonEmpty(qa_field, index, matched) ==
    IF Truthy(qa_field.canonical_key) /\ qa_field.canonical_key \in IndexKeys(index)
           /\ qa_field.canonical_key \notin matched
    THEN MatchResult(qa_field.original_text, "PRESENTE", qa_field.canonical_key,
                     6000, "exact")
    ELSE NoMatch

_try_exact_match(qa_field, index, matched) ==
    IF qa_field.canonical_key \in IndexKeys(index)
    THEN LET found_field == index[IndexGet(index, qa_field.canonical_key)].field
         IN  IF found_field.canonical_key \notin matched
             THEN MatchResult(qa_field.original_text, "PRESENTE",
                              found_field.canonical_key, 6000, "exact")
             ELSE NoMatch
    ELSE NoMatch

\* _try_synonym_match without "if found_field.canonical_key not in matched"
_try_synonym_match_AnyField(qa_field, index, matched) ==
    { MatchResult(qa_field.original_text, "PRESENTE", synonym, 5700, "synonym") :
        synonym \in qa_field.synonyms \cap IndexKeys(index) }

\* The results the loop over the set qa_field.synonyms can return: the set is
\* walked in hash order, and the first synonym that qualifies is returned.
\* No result means "return None".
_try_synonym_match(qa_field, index, matched) ==
    { MatchResult(qa_field.original_text, "PRESENTE",
                  index[IndexGet(index, synonym)].field.canonical_key, 5700, "synonym") :
        synonym \in { s \in qa_field.synonyms :
                        /\ s \in IndexKeys(index)
                        /\ index[IndexGet(index, s)].field.canonical_key \notin matched } }

\* found_field.label_visible or canonical_key
LabelOf(field) ==
    IF Truthy(field.label_visible) THEN field.label_visible ELSE field.canonical_key

\* The two strings handed to fuzz.ratio for an entry and a field.
RatioArgs(qa_field, field) ==
    <<qa_field.normalized, normalize_text(LabelOf(field), TRUE)>>

\* Whether fuzz.ratio is fixed by its arguments alone.
RatioFixed(args) == args[1] = args[2] \/ args[1] = << >> \/ args[2] = << >>

\* fuzz.ratio(s1, s2) / 100.0 in 1/100: 100 for equal strings, 0 when one is
\* empty, else the value `ratios` holds for the pair.
fuzzy_sim(ratios, args) ==
    IF args[1] = args[2] THEN 100
    ELSE IF RatioFixed(args) THEN 0
    ELSE ratios[args]

\* (jaccard_sim * 0.6) + (fuzzy_sim * 0.4), in 1/6000
combined_sim(jaccard, fuzzy) == (jaccard * 60) + (fuzzy * 24)

\* The pairs whose ratio decides something for the entry: those of the fields
\* with an unclaimed key that a ratio of 100 would lift over the threshold.
\* The ratio of any other pair changes no comparison of the loop.
RatiosNeeded(qa_field, fs, matched) ==
    { RatioArgs(qa_field, fs[k]) : k \in
        { k \in 1..Len(fs) :
            /\ fs[k].canonical_key \notin matched
            /\ ~RatioFixed(RatioArgs(qa_field, fs[k]))
            /\ combined_sim(calculate_similarity(qa_field.original_text, LabelOf(fs[k])),
                            100) > threshold } }

\* if combined_sim > best_similarity, with ">=" in its place
Improves_AtLeast(combined, best_similarity) == combined >= best_similarity

\* if combined_sim > best_similarity
Improves(combined, best_similarity) == combined > best_similarity

\* The for loop of _try_similarity_match from item n on.
RECURSIVE BestFrom(_, _, _, _, _, _, _)
BestFrom(n, qa_field, index, matched, ratios, best_match, best_similarity) ==
    IF n > Len(index) THEN best_match
    ELSE IF index[n].key \in matched
    THEN BestFrom(n + 1, qa_field, index, matched, ratios, best_match, best_similarity)
    ELSE LET jaccard == calculate_similarity(qa_field.original_text, LabelOf(index[n].field))
             args == RatioArgs(qa_field, index[n].field)
             decides == args \in DOMAIN ratios \/ RatioFixed(args)
             combined == combined_sim(jaccard, fuzzy_sim(ratios, args))
         IN  IF decides /\ Improves(combined, best_similarity)
             THEN BestFrom(n + 1, qa_field, index, matched, ratios,
                           [found_field |-> index[n].field, similarity |-> combined],
                           combined)
             ELSE BestFrom(n + 1, qa_field, index, matched, ratios,
                           best_match, best_similarity)

\* if similarity >= 0.9, with ">" in its place
SimilarityStatus_Above(similarity) ==
    IF similarity > 5400 THEN "PRESENTE" ELSE "POTENCIAL_EQUIVALENTE"

\* if similarity >= 0.9: status = "PRESENTE" else: status = "POTENCIAL_EQUIVALENTE"
SimilarityStatus(similarity) ==
    IF similarity >= 5400 THEN "PRESENTE" ELSE "POTENCIAL_EQUIVALENTE"

_try_similarity_match(qa_field, index, matched, ratios) ==
    LET best_match == BestFrom(1, qa_field, index, matched, ratios, NoMatch, threshold)
    IN  IF best_match # NoMatch
        THEN MatchResult(qa_field.original_text,
                         SimilarityStatus(best_match.similarity),
                         best_match.found_field.canonical_key,
                         best_match.similarity, "similarity")
        ELSE NoMatch

\* The FALTANTE result under the entry's key instead of its text
MissingResult_Key(qa_field) ==
    MatchResult(qa_field.canonical_key, "FALTANTE", None, 0, "none")

MissingResult(qa_field) ==
    MatchResult(qa_field.original_text, "FALTANTE", None, 0, "none")

-----------------------------------------------------------------------------
(* The Matcher, from its construction on. *)

NoReturn == [none |-> TRUE]

\* What the Validator handed over as optional: none of the fields or all.
OptionalSets(fs) == { {}, {fs[k].canonical_key : k \in 1..Len(fs)} }

\* No Validator, RetryStrategy or LoopDetector is at work beside the Matcher.
NoValidator == [none |-> TRUE]

NoRetry == [none |-> TRUE]

NoDetector == [none |-> TRUE]

\* No function of the normalizer is called on its own, and no execute() calls
\* run at once.
NoNormalizer == [none |-> TRUE]

NoExecutions == << >>

NoAgent == [none |-> TRUE]

\* The path of the checklist holds no file, or a file that open() or the
\* UTF-8 decoding of readlines() refuses.
Absent == << <<"<absent>">> >>

Malformed == << <<"<undecodable>">> >>

\* The list of _create_sample_qa_file, a line in words.
sample_fields ==
    << <<"#", "Campos", "Fundamentales", "QA", "-", "CORFO">>,
       <<"#", "Un", "campo", "por", "línea.", "Líneas", "que", "empiezan",
         "con", "#", "son", "comentarios.">>,
       << >>,
       <<"#", "Identificación">>,
       <<"RUT">>,
       <<"Nombre">>,
       <<"Apellido", "Paterno">>,
       <<"Apellido", "Materno">>,
       <<"Email">>,
       <<"Teléfono">>,
       << >>,
       <<"#", "Datos", "de", "Empresa">>,
       <<"Razón", "Social">>,
       <<"RUT", "Empresa">>,
       <<"Giro", "Comercial">>,
       <<"Fecha", "Inicio", "Actividades">>,
       << >>,
       <<"#", "Ubicación">>,
       <<"Dirección">>,
       <<"Comuna">>,
       <<"Región">>,
       << >>,
       <<"#", "Proyecto">>,
       <<"Nombre", "del", "Proyecto">>,
       <<"Descripción", "del", "Proyecto">>,
       <<"Monto", "Solicitado">>,
       <<"Duración", "del", "Proyecto">> >>

\* if not qa_path.exists(), with a sample file of no lines written
FileRead_EmptySample(file) == IF file = Absent THEN << >> ELSE file

\* if not qa_path.exists(): self._create_sample_qa_file(qa_path); the lines
\* readlines() then gives.
FileRead(file) == IF file = Absent THEN sample_fields ELSE file

Init ==
    /\ qa_file \in SeqsUpTo(Lines, MaxLines)
    /\ fields \in SeqsUpTo(FieldUniverse, MaxFields)
    /\ threshold \in Thresholds
    /\ qa_fields = << >>
    /\ match_results = << >>
    /\ extra_fields = << >>
    /\ found_fields_index = << >>
    /\ matched_found_fields = {}
    /\ pc = "idle"
    /\ qi = 0
    /\ fuzz_ratio = << >>
    /\ result = NoReturn
    /\ calls = 0
    /\ optional_fields \in OptionalSets(fields)
    /\ validator = NoValidator
    /\ retry = NoRetry
    /\ detector = NoDetector
    /\ normalizer = NoNormalizer
    /\ executions = NoExecutions
    /\ agent = NoAgent

\* match() is called on the Matcher just constructed, as main.py does:
\* _load_qa_fields, then _perform_matching up to its loop.
LoadQAFields ==
    /\ pc = "idle"
    /\ calls = 0
    /\ qa_file # Malformed
    /\ calls' = calls + 1
    /\ qa_file' = FileRead(qa_file)
    /\ qa_fields' = qa_fields \o LoadedFrom(FileRead(qa_file))
    /\ found_fields_index' = IndexOf(fields)
    /\ matched_found_fields' = {}
    /\ qi' = 1
    /\ pc' = "matching"
    /\ UNCHANGED <<fields, threshold, match_results, extra_fields,
                   fuzz_ratio, result, optional_fields, beside_matcher>>

\* except Exception as e of match(), with the exception raised again
Caught_Raised(e) == [raised |-> e]

\* except Exception as e of match(): the error is logged and returned.
Caught(e) == [success |-> FALSE, error |-> e, match_results |-> << >>]

\* match() on a file that cannot be read: open() or readlines() raises,
\* _load_qa_fields logs and raises again, and the except of match() returns.
LoadQAFieldsRaises ==
    /\ pc = "idle"
    /\ calls = 0
    /\ qa_file = Malformed
    /\ calls' = calls + 1
    /\ result' = Caught("UnicodeDecodeError")
    /\ UNCHANGED <<qa_file, fields, threshold, qa_fields, match_results,
                   extra_fields, found_fields_index, matched_found_fields, pc,
                   qi, fuzz_ratio, optional_fields, beside_matcher>>

\* What one turn of the loop appends for the entry: the exact match, else a
\* synonym match, else the similarity match under the ratios, else FALTANTE.
Verdicts(qa_field, index, matched, ratios) ==
    LET exact_match == _try_exact_match(qa_field, index, matched)
        synonym_matches == _try_synonym_match(qa_field, index, matched)
        similarity_match == _try_similarity_match(qa_field, index, matched, ratios)
    IN  IF exact_match # NoMatch THEN {exact_match}
        ELSE IF synonym_matches # {} THEN synonym_matches
        ELSE IF similarity_match # NoMatch THEN {similarity_match}
        ELSE {MissingResult(qa_field)}

\* A pool per tier: a similarity match is not added to matched_found_fields
Claimed_NotSimilarity(matched, verdict) ==
    IF verdict.match_type \in {"none", "similarity"} THEN matched
    ELSE matched \cup {verdict.found_field}

\* matched_found_fields.add(found_field) for every result, FALTANTE too
Claimed_Always(matched, verdict) == matched \cup {verdict.found_field}

\* matched_found_fields.add(match.found_field), which FALTANTE does not do.
Claimed(matched, verdict) ==
    IF verdict.match_type = "none" THEN matched
    ELSE matched \cup {verdict.found_field}

\* One turn of "for qa_field in self.qa_fields".
PerformMatchingStep ==
    /\ pc = "matching"
    /\ qi <= Len(qa_fields)
    /\ LET qa_field == qa_fields[qi]
           third == /\ _try_exact_match(qa_field, found_fields_index,
                                        matched_found_fields) = NoMatch
                    /\ _try_synonym_match(qa_field, found_fields_index,
                                          matched_found_fields) = {}
           needed == IF third
                     THEN RatiosNeeded(qa_field, fields, matched_found_fields)
                     ELSE {}
           fresh == needed \ DOMAIN fuzz_ratio
       IN  \E drawn \in [fresh -> FuzzLevels] :
             LET ratios == drawn @@ fuzz_ratio
             IN  \E verdict \in Verdicts(qa_field, found_fields_index,
                                         matched_found_fields, ratios) :
                   /\ fuzz_ratio' = ratios
                   /\ match_results' = Append(match_results, verdict)
                   /\ matched_found_fields' = Claimed(matched_found_fields, verdict)
    /\ qi' = qi + 1
    /\ UNCHANGED <<qa_file, fields, threshold, qa_fields, extra_fields,
                   found_fields_index, pc, result, calls, optional_fields,
                   beside_matcher>>

\* The keys _identify_extra_fields appends.
ExtraKeys(fs, results) ==
    LET matched_field_keys ==
            {results[k].found_field : k \in
                {k \in 1..Len(results) : Truthy(results[k].found_field)}}
    IN  SelectSeq([k \in 1..Len(fs) |-> fs[k].canonical_key],
                  LAMBDA key : key \notin matched_field_keys)

IdentifyExtraFields ==
    /\ pc = "matching"
    /\ qi > Len(qa_fields)
    /\ extra_fields' = extra_fields \o ExtraKeys(fields, match_results)
    /\ pc' = "extras"
    /\ UNCHANGED <<qa_file, fields, threshold, qa_fields, match_results,
                   found_fields_index, matched_found_fields, qi, fuzz_ratio,
                   result, calls, optional_fields, beside_matcher>>

\* sum(1 for r in self.match_results if r.status == ...), with the
\* POTENCIAL_EQUIVALENTE verdicts counted as PRESENTE too
CountStatus_Loose(results, status) ==
    Cardinality({k \in 1..Len(results) :
                    \/ results[k].status = status
                    \/ /\ status = "PRESENTE"
                       /\ results[k].status = "POTENCIAL_EQUIVALENTE"})

CountStatus(results, status) ==
    Cardinality({k \in 1..Len(results) : results[k].status = status})

\* (present / len(self.qa_fields) * 100) if self.qa_fields else 0, in 1/1020
\* of a percent: exact for a checklist of up to 6 entries and for the 17
\* entries of the sample.
coverage(present, entries) ==
    IF entries # << >> THEN (present * 102000) \div Len(entries) ELSE 0

\* if result.status == "PRESENTE" and result.found_field
Counted(r) == r.status = "PRESENTE" /\ Truthy(r.found_field)

\* The list should_be_required of _calculate_statistics.
should_be_required(results, optional) ==
    LET found == [k \in 1..Len(results) |-> results[k].found_field]
        counted == {k \in 1..Len(results) : Counted(results[k])}
        kept == {k \in counted : results[k].found_field \in optional}
        Pick(k) == IF k \in kept THEN <<found[k]>> ELSE << >>
    IN  Flatten([k \in 1..Len(results) |-> Pick(k)])

_calculate_statistics(entries, results, extras, optional) ==
    [present |-> CountStatus(results, "PRESENTE"),
     missing |-> CountStatus(results, "FALTANTE"),
     potential_equivalent |-> CountStatus(results, "POTENCIAL_EQUIVALENTE"),
     extra_fields |-> Len(extras),
     coverage_percentage |-> coverage(CountStatus(results, "PRESENTE"), entries),
     should_be_required |-> should_be_required(results, optional)]

\* The dictionary match() returns.
MatchReturn ==
    /\ pc = "extras"
    /\ result' = [success |-> TRUE,
                  total_qa_fields |-> Len(qa_fields),
                  total_found_fields |-> Len(fields),
                  match_results |-> match_results,
                  extra_fields |-> extra_fields,
                  statistics |-> _calculate_statistics(qa_fields, match_results,
                                                       extra_fields, optional_fields)]
    /\ pc' = "idle"
    /\ UNCHANGED <<qa_file, fields, threshold, qa_fields, match_results,
                   extra_fields, found_fields_index, matched_found_fields, qi,
                   fuzz_ratio, calls, optional_fields, beside_matcher>>

Next ==
    \/ LoadQAFields
    \/ PerformMatchingStep
    \/ IdentifyExtraFields
    \/ MatchReturn

Spec == Init /\ [][Next]_vars

\* The Matcher with a checklist path that holds no file, or an unreadable
\* one, or a file of at most a line.
InitFiles ==
    /\ qa_file \in {Absent, Malformed} \cup SeqsUpTo(Lines, 1)
    /\ fields \in SeqsUpTo(FieldUniverse, MaxFields)
    /\ threshold \in Thresholds
    /\ qa_fields = << >>
    /\ match_results = << >>
    /\ extra_fields = << >>
    /\ found_fields_index = << >>
    /\ matched_found_fields = {}
    /\ pc = "idle"
    /\ qi = 0
    /\ fuzz_ratio = << >>
    /\ result = NoReturn
    /\ calls = 0
    /\ optional_fields \in OptionalSets(fields)
    /\ validator = NoValidator
    /\ retry = NoRetry
    /\ detector = NoDetector
    /\ normalizer = NoNormalizer
    /\ executions = NoExecutions
    /\ agent = NoAgent

\* match() is called once more on the same Matcher, after it has returned:
\* _load_qa_fields appends to self.qa_fields as it stands, and
\* _perform_matching starts with a new index and an empty matched set.
LoadQAFieldsAgain ==
    /\ pc = "idle"
    /\ calls = 1
    /\ qa_file # Malformed
    /\ calls' = calls + 1
    /\ qa_file' = FileRead(qa_file)
    /\ qa_fields' = qa_fields \o LoadedFrom(FileRead(qa_file))
    /\ found_fields_index' = IndexOf(fields)
    /\ matched_found_fields' = {}
    /\ qi' = 1
    /\ pc' = "matching"
    /\ UNCHANGED <<fields, threshold, match_results, extra_fields,
                   fuzz_ratio, result, optional_fields, beside_matcher>>

\* A Matcher with a checklist of at most a line and at most a field.
InitAgain ==
    /\ qa_file \in SeqsUpTo(Lines, 1)
    /\ fields \in SeqsUpTo(FieldUniverse, 1)
    /\ threshold \in Thresholds
    /\ qa_fields = << >>
    /\ match_results = << >>
    /\ extra_fields = << >>
    /\ found_fields_index = << >>
    /\ matched_found_fields = {}
    /\ pc = "idle"
    /\ qi = 0
    /\ fuzz_ratio = << >>
    /\ result = NoReturn
    /\ calls = 0
    /\ optional_fields \in OptionalSets(fields)
    /\ validator = NoValidator
    /\ retry = NoRetry
    /\ detector = NoDetector
    /\ normalizer = NoNormalizer
    /\ executions = NoExecutions
    /\ agent = NoAgent

NextAgain ==
    \/ LoadQAFields
    \/ LoadQAFieldsAgain
    \/ PerformMatchingStep
    \/ IdentifyExtraFields
    \/ MatchReturn

SpecAgain == InitAgain /\ [][NextAgain]_vars

NextFiles ==
    \/ LoadQAFields
    \/ LoadQAFieldsRaises
    \/ PerformMatchingStep
    \/ IdentifyExtraFields
    \/ MatchReturn

SpecFiles == InitFiles /\ [][NextFiles]_vars

-----------------------------------------------------------------------------
(* modes/validator.py.  A value that is a bool, an int, a str or None is    *)
(* written as Python prints it: "True", "False", "None", "0", "3".          *)

MaxForm == 1

REQUIRED_KEYWORDS ==
    << <<"obligatorio">>, <<"requerido">>, <<"required">>, <<"necesario">>,
       <<"debe">>, <<"campo", "obligatorio">>, <<"campo", "requerido">> >>

\* str.lower() on one token.
LoweredTokens ==
    ("Nombre" :> "nombre") @@ ("Campo" :> "campo") @@ ("Requerido" :> "requerido")

lower(text) ==
    [k \in 1..Len(text) |->
        IF text[k] \in DOMAIN LoweredTokens THEN LoweredTokens[text[k]] ELSE text[k]]

\* The tokens that hold the character "*".
AsteriskTokens == {"*", "(*)"}

\* keyword in combined_text, for texts whose tokens hold a keyword only as a
\* whole token.
KeywordIn(keyword, text) ==
    \E k \in 1..Len(text) :
        /\ k + Len(keyword) - 1 <= Len(text)
        /\ SubSeq(text, k, k + Len(keyword) - 1) = keyword

\* " ".join(filter(None, [label_visible, help_text, aria_label])).lower()
combined_text(field) ==
    lower(Flatten(SelectSeq(<<field.label_visible, field.help_text, field.aria_label>>,
                            Truthy)))

\* field.pattern or field.min_length or field.min_value: a str counts unless
\* empty, an int unless 0, None never.
HasRules(field) ==
    field.pattern \notin {"None", ""} \/ field.min_length \notin {"None", "0"}
        \/ field.min_value \notin {"None", ""}

\* What the page does when _test_blur_validation probes a field.
ProbeOutcomes == {"hidden", "raises", "aria-invalid", "error-message", "no-error"}

_test_blur_validation(probe) ==
    IF probe \in {"hidden", "raises"} THEN "None"
    ELSE IF probe \in {"aria-invalid", "error-message"} THEN "True"
    ELSE "False"

\* The list `signals` of _detect_required, in the order it is appended to.
signals(field, blur_required) ==
    Flatten(<< IF field.required_flag THEN << <<"html_required", "True">> >> ELSE << >>,
               IF field.aria_required = "True" THEN << <<"aria_required", "True">> >> ELSE << >>,
               IF Truthy(field.label_visible)
                      /\ \E k \in 1..Len(field.label_visible) :
                             field.label_visible[k] \in AsteriskTokens
               THEN << <<"asterisk", "True">> >> ELSE << >>,
               IF \E n \in 1..Len(REQUIRED_KEYWORDS) :
                      KeywordIn(REQUIRED_KEYWORDS[n], combined_text(field))
               THEN << <<"keyword", "True">> >> ELSE << >>,
               IF HasRules(field) THEN << <<"validation_rules", "True">> >> ELSE << >>,
               IF blur_required # "None" THEN << <<"blur_test", blur_required>> >> ELSE << >> >>)

\* if positive_signals >= 2, with the weighted rule "1 or more" in its place
Verdict_AnySignal(positive_signals) ==
    IF positive_signals >= 1 THEN "True" ELSE "False"

\* if positive_signals == 2, in place of ">= 2"
Verdict_ExactlyTwo(positive_signals) ==
    IF positive_signals = 2 THEN "True"
    ELSE IF positive_signals >= 1 THEN "None"
    ELSE "False"

\* if positive_signals >= 2: True; elif positive_signals >= 1: None; else: False
Verdict(positive_signals) ==
    IF positive_signals >= 2 THEN "True"
    ELSE IF positive_signals >= 1 THEN "None"
    ELSE "False"

\* sum(1 for _, required in signals if required), counting every signal
Positive_All(sigs) == Len(sigs)

\* sum(1 for _, required in signals if required)
Positive(sigs) == Cardinality({k \in 1..Len(sigs) : sigs[k][2] = "True"})

_detect_required(field, probe) ==
    LET sigs == signals(field, _test_blur_validation(probe))
    IN  IF sigs = << >> THEN "False" ELSE Verdict(Positive(sigs))

\* A discovered field as the Validator reads it.
ValidatedField(label_visible, help_text, required_flag, aria_required, pattern, min_length, min_value, editable) ==
    [label_visible |-> label_visible, help_text |-> help_text, aria_label |-> None,
     required_flag |-> required_flag, aria_required |-> aria_required,
     pattern |-> pattern, min_length |-> min_length, min_value |-> min_value,
     visible |-> editable, enabled |-> TRUE,
     canonical_key |-> _generate_canonical_key(label_visible, <<"nom">>)]

\* pattern, min_length and min_value of the fields of the model.
Rules == { <<"None", "None", "None">>, <<"None", "0", "None">>, <<"[0-9]+", "None", "None">> }

FormUniverse ==
    { ValidatedField(label, help, flag, aria, rules[1], rules[2], rules[3], TRUE) :
        label \in {None, <<"Nombre">>, <<"Nombre", "(*)">>},
        help \in {None, <<"Campo", "Requerido">>},
        flag \in BOOLEAN,
        aria \in {"None", "False", "True"},
        rules \in Rules }
    \cup { ValidatedField(<<"Nombre", "(*)">>, None, TRUE, "True", "None", "None", "None", FALSE) }
    \cup { [ValidatedField(<<"Nombre", "(*)">>, None, TRUE, "True", "None", "None", "None", TRUE)
              EXCEPT !.enabled = FALSE] }

\* The Matcher at rest beside a Validator, a RetryStrategy or a LoopDetector.
MatcherAside ==
    /\ qa_file = << >>
    /\ fields = << >>
    /\ threshold \in Thresholds
    /\ qa_fields = << >>
    /\ match_results = << >>
    /\ extra_fields = << >>
    /\ found_fields_index = << >>
    /\ matched_found_fields = {}
    /\ pc = "aside"
    /\ qi = 0
    /\ fuzz_ratio = << >>
    /\ result = NoReturn
    /\ calls = 0
    /\ optional_fields = {}

matcher_vars == <<qa_file, fields, threshold, qa_fields, match_results, extra_fields,
                  found_fields_index, matched_found_fields, pc, qi, fuzz_ratio,
                  result, calls, optional_fields>>

\* Validator.__init__ on a list of extracted fields.
InitValidator ==
    /\ MatcherAside
    /\ retry = NoRetry
    /\ detector = NoDetector
    /\ normalizer = NoNormalizer
    /\ executions = NoExecutions
    /\ agent = NoAgent
    /\ \E form \in SeqsUpTo(FormUniverse, MaxForm) :
          validator = [fields |-> form, pos |-> 1, pc |-> "fields",
                       required_fields |-> << >>, optional_fields |-> << >>,
                       uncertain_fields |-> << >>, validation_events |-> << >>,
                       probes |-> << >>, detected |-> << >>, result |-> NoReturn]

\* if not field.visible or not field.enabled, with the disabled fields let
\* through
Skipped_HiddenOnly(field) == ~field.visible

\* if not field.visible or not field.enabled: continue
Skipped(field) == ~field.visible \/ ~field.enabled

\* One turn of "for field in self.fields" of validate(): `probes` keeps what
\* the page did under the probe and `detected` what _detect_required returned.
DetectRequiredStep ==
    /\ validator.pc = "fields"
    /\ validator.pos <= Len(validator.fields)
    /\ LET field == validator.fields[validator.pos]
       IN  IF Skipped(field)
           THEN validator' = [validator EXCEPT !.pos = @ + 1,
                                               !.probes = Append(@, "skipped"),
                                               !.detected = Append(@, "skipped")]
           ELSE \E probe \in ProbeOutcomes :
                  LET is_required == _detect_required(field, probe)
                  IN  validator' =
                        [validator EXCEPT
                           !.pos = @ + 1,
                           !.probes = Append(@, probe),
                           !.detected = Append(@, is_required),
                           !.required_fields =
                               IF is_required = "True"
                               THEN Append(@, field.canonical_key) ELSE @,
                           !.optional_fields =
                               IF is_required = "False"
                               THEN Append(@, field.canonical_key) ELSE @,
                           !.uncertain_fields =
                               IF is_required = "None"
                               THEN Append(@, field.canonical_key) ELSE @]
    /\ UNCHANGED <<matcher_vars, retry, detector, normalizer, executions, agent>>

\* The end of validate(): _test_form_validation records the errors the page
\* shows, each under the key of a field or "unknown", and the dict is returned.
ValidateReturn ==
    /\ validator.pc = "fields"
    /\ validator.pos > Len(validator.fields)
    /\ \E events \in SeqsUpTo({validator.fields[k].canonical_key :
                                  k \in 1..Len(validator.fields)} \cup {<<"unknown">>}, 1) :
          validator' =
            [validator EXCEPT
               !.pc = "done",
               !.validation_events = @ \o events,
               !.result = [success |-> TRUE,
                           required_fields |-> validator.required_fields,
                           optional_fields |-> validator.optional_fields,
                           uncertain_fields |-> validator.uncertain_fields,
                           validation_events |-> validator.validation_events \o events,
                           total_fields |-> Len(validator.fields)]]
    /\ UNCHANGED <<matcher_vars, retry, detector, normalizer, executions, agent>>

NextValidator ==
    \/ DetectRequiredStep
    \/ ValidateReturn

SpecValidator == InitValidator /\ [][NextValidator]_vars

-----------------------------------------------------------------------------
(* utils/resilience.py: RetryStrategy.  Delays are whole seconds.           *)

MaxRetries == 3

\* What the operation handed to execute() returns when it succeeds, and the
\* exceptions it raises when it fails.
OperationResults == {"None", "ok"}

Causes == {"TimeoutError", "ValueError"}

Min(a, b) == IF a <= b THEN a ELSE b

RECURSIVE Power(_, _)
Power(base, n) == IF n = 0 THEN 1 ELSE base * Power(base, n - 1)

\* get_delay without the cap of max_delay
get_delay_Uncapped(strategy, attempt) ==
    strategy.base_delay * Power(strategy.exponential_base, attempt)

get_delay(strategy, attempt) ==
    Min(strategy.base_delay * Power(strategy.exponential_base, attempt),
        strategy.max_delay)

\* for attempt in range(self.max_retries + 1), with one attempt more
InRange_OneMore(strategy, attempt) == attempt <= strategy.max_retries + 1

\* for attempt in range(self.max_retries + 1)
InRange(strategy, attempt) == attempt < strategy.max_retries + 1

\* if attempt < self.max_retries
Retries(strategy, attempt) == attempt < strategy.max_retries

\* The for statement takes its next value, or the loop ends and execute()
\* returns None.
LoopNext(strategy) ==
    IF InRange(strategy, strategy.attempt + 1)
    THEN [strategy EXCEPT !.attempt = @ + 1, !.pc = "attempt"]
    ELSE [strategy EXCEPT !.pc = "done", !.returned = [value |-> "None"]]

\* "return result" taken for a failure when the result is None
Succeeded_RetryOnNone(strategy, value) ==
    IF value = "None" THEN LoopNext(strategy)
    ELSE [strategy EXCEPT !.pc = "done", !.returned = [value |-> value]]

\* return result
Succeeded(strategy, value) ==
    [strategy EXCEPT !.pc = "done", !.returned = [value |-> value]]

\* RetryStrategy.__init__ and the call of execute() up to its first attempt;
\* `log` keeps what each invocation of the operation did and `slept` the
\* delays handed to asyncio.sleep.
InitRetry ==
    /\ MatcherAside
    /\ validator = NoValidator
    /\ detector = NoDetector
    /\ normalizer = NoNormalizer
    /\ executions = NoExecutions
    /\ agent = NoAgent
    /\ \E max_retries \in 0..MaxRetries, base_delay \in {1, 2}, max_delay \in {3, 30},
          exponential_base \in {2, 3} :
          retry = [max_retries |-> max_retries, base_delay |-> base_delay,
                   max_delay |-> max_delay, exponential_base |-> exponential_base,
                   attempt |-> 0, pc |-> "attempt", last_exception |-> "None",
                   returned |-> NoReturn, log |-> << >>, slept |-> << >>,
                   cancelled |-> "no"]

\* await func(*args, **kwargs) returns.
AttemptSucceeds ==
    /\ retry.pc = "attempt"
    /\ \E value \in OperationResults :
          retry' = Succeeded([retry EXCEPT !.log = Append(@, value)], value)
    /\ UNCHANGED <<matcher_vars, validator, detector, normalizer, executions, agent>>

\* await func(*args, **kwargs) raises an Exception: the handler keeps it and
\* starts the sleep, or after the last attempt the loop goes on to its end.
AttemptFails ==
    /\ retry.pc = "attempt"
    /\ \E e \in Causes :
          LET failed == [retry EXCEPT !.log = Append(@, e), !.last_exception = e]
          IN  retry' = IF Retries(failed, failed.attempt)
                       THEN [failed EXCEPT
                               !.slept = Append(@, get_delay(failed, failed.attempt)),
                               !.pc = "sleeping"]
                       ELSE LoopNext(failed)
    /\ UNCHANGED <<matcher_vars, validator, detector, normalizer, executions, agent>>

\* await asyncio.sleep(delay) returns.
SleepEnds ==
    /\ retry.pc = "sleeping"
    /\ retry' = LoopNext(retry)
    /\ UNCHANGED <<matcher_vars, validator, detector, normalizer, executions, agent>>

\* The CancelledError of the sleep caught like a failure of the operation:
\* the loop goes on
AfterCancel_Swallowed(strategy) ==
    IF strategy.pc = "sleeping" THEN LoopNext(strategy)
    ELSE [strategy EXCEPT !.pc = "raised", !.log = Append(@, "CancelledError")]

\* CancelledError comes out of the await: no except clause of execute()
\* takes it, in the try because it is no Exception, in the handler because
\* the sleep is not inside a try.
AfterCancel(strategy) ==
    [strategy EXCEPT !.pc = "raised",
                     !.log = IF strategy.pc = "attempt"
                             THEN Append(@, "CancelledError") ELSE @]

\* The task is cancelled while it awaits the operation or the sleep;
\* `cancelled` keeps which of the two.
Cancelled ==
    /\ retry.pc \in {"attempt", "sleeping"}
    /\ retry' = AfterCancel([retry EXCEPT !.cancelled = retry.pc])
    /\ UNCHANGED <<matcher_vars, validator, detector, normalizer, executions, agent>>

NextRetry ==
    \/ AttemptSucceeds
    \/ AttemptFails
    \/ SleepEnds
    \/ Cancelled

SpecRetry == InitRetry /\ [][NextRetry]_vars

\* The event loop resumes the coroutine when the operation completes or the
\* sleep is over.
FairSpecRetry ==
    /\ InitRetry
    /\ [][NextRetry]_vars
    /\ WF_vars(AttemptSucceeds \/ AttemptFails)
    /\ WF_vars(SleepEnds)

-----------------------------------------------------------------------------
(* utils/resilience.py: execute() calls that run at once, as tasks of one   *)
(* event loop, on one RetryStrategy or on two.  A task keeps the attributes *)
(* of its `self`, which execute() only reads, and its own local variables.  *)

Tasks == {1, 2}

\* The frame of execute() of task t, and of no other task, changes when the
\* task is resumed, with `attempt` kept on self: the tasks of the same
\* RetryStrategy all see the new value
Resumed_AttemptOnSelf(ex, t, after) ==
    [k \in DOMAIN ex |->
        IF k = t THEN after
        ELSE IF ex[k].self = ex[t].self THEN [ex[k] EXCEPT !.attempt = after.attempt]
        ELSE ex[k]]

\* The frame of execute() of task t, and of no other task, changes when the
\* task is resumed: last_exception, attempt, delay and result are locals.
Resumed(ex, t, after) == [ex EXCEPT ![t] = after]

\* A task of execute() with the attributes of its RetryStrategy.
Execution(self, max_retries, base_delay) ==
    [self |-> self, max_retries |-> max_retries, base_delay |-> base_delay,
     max_delay |-> 3, exponential_base |-> 2,
     attempt |-> 0, pc |-> "attempt", last_exception |-> "None",
     returned |-> NoReturn, log |-> << >>, slept |-> << >>, cancelled |-> "no"]

\* Two execute() calls are started, on the same RetryStrategy (as the one
\* Completer.__init__ keeps) or on two.
InitConcurrent ==
    /\ MatcherAside
    /\ validator = NoValidator
    /\ retry = NoRetry
    /\ detector = NoDetector
    /\ normalizer = NoNormalizer
    /\ agent = NoAgent
    /\ \E r1, r2 \in 0..MaxRetries, d1, d2 \in {1, 2} :
          \/ executions = <<Execution(1, r1, d1), Execution(1, r1, d1)>>
          \/ executions = <<Execution(1, r1, d1), Execution(2, r2, d2)>>

\* await func(*args, **kwargs) returns in a task.
TaskAttemptSucceeds ==
    \E t \in Tasks :
        /\ executions[t].pc = "attempt"
        /\ \E value \in OperationResults :
              executions' =
                 Resumed(executions, t,
                         Succeeded([executions[t] EXCEPT !.log = Append(@, value)],
                                   value))
        /\ UNCHANGED <<matcher_vars, validator, retry, detector, normalizer, agent>>

\* await func(*args, **kwargs) raises an Exception in a task.
TaskAttemptFails ==
    \E t \in Tasks :
        /\ executions[t].pc = "attempt"
        /\ \E e \in Causes :
              LET failed == [executions[t] EXCEPT !.log = Append(@, e),
                                                  !.last_exception = e]
                  after == IF Retries(failed, failed.attempt)
                           THEN [failed EXCEPT
                                   !.slept = Append(@, get_delay(failed, failed.attempt)),
                                   !.pc = "sleeping"]
                           ELSE LoopNext(failed)
              IN  executions' = Resumed(executions, t, after)
        /\ UNCHANGED <<matcher_vars, validator, retry, detector, normalizer, agent>>

\* await asyncio.sleep(delay) returns in a task.
TaskSleepEnds ==
    \E t \in Tasks :
        /\ executions[t].pc = "sleeping"
        /\ executions' = Resumed(executions, t, LoopNext(executions[t]))
        /\ UNCHANGED <<matcher_vars, validator, retry, detector, normalizer, agent>>

NextConcurrent ==
    \/ TaskAttemptSucceeds
    \/ TaskAttemptFails
    \/ TaskSleepEnds

SpecConcurrent == InitConcurrent /\ [][NextConcurrent]_vars

-----------------------------------------------------------------------------
(* utils/resilience.py: LoopDetector.  Time is counted in ticks of the      *)
(* clock, and state_ttl in the same ticks.                                  *)

MaxSameState == 3
MaxTime == 3
MaxRecords == 4

StateKeys == {"x", "y"}

\* [ts for ts in self.state_history[state_key] if now - ts < self.state_ttl]
Surviving(history, now, state_ttl) ==
    SelectSeq(history, LAMBDA ts : now - ts < state_ttl)

\* if count >= self.max_same_state, with ">" in its place
IsLoop_Above(count, max_same_state) == count > max_same_state

\* if count >= self.max_same_state
IsLoop(count, max_same_state) == count >= max_same_state

\* The history of the key after "if count >= self.max_same_state", with the
\* history emptied when the loop is reported
AfterVerdict_Reset(kept, answer) == IF answer THEN << >> ELSE kept

\* The history of the key after "if count >= self.max_same_state": neither
\* branch touches self.state_history[state_key].
AfterVerdict(kept, answer) == kept

\* self.state_history[state_key] = [...], with the one list bound to every key
Recorded_EveryKey(state_history, state_key, kept) ==
    [s \in DOMAIN state_history \cup {state_key} |-> kept]

\* self.state_history[state_key] = [...] and .append(now): the entry of
\* state_key is rebound, the other entries of the dict stay.
Recorded(state_history, state_key, kept) == (state_key :> kept) @@ state_history

\* LoopDetector.__init__; `log` keeps the calls made on the detector.
InitDetector ==
    /\ MatcherAside
    /\ validator = NoValidator
    /\ retry = NoRetry
    /\ normalizer = NoNormalizer
    /\ executions = NoExecutions
    /\ agent = NoAgent
    /\ \E max_same_state \in 1..MaxSameState, state_ttl \in {1, 3} :
          detector = [max_same_state |-> max_same_state, state_ttl |-> state_ttl,
                      state_history |-> << >>, now |-> 0, log |-> << >>]

\* record_state(state_key), with datetime.now() at or after the last reading.
RecordState ==
    /\ Len(detector.log) < MaxRecords
    /\ \E state_key \in StateKeys, now \in detector.now..MaxTime :
          LET known == IF state_key \in DOMAIN detector.state_history
                       THEN detector.state_history[state_key] ELSE << >>
              kept == Append(Surviving(known, now, detector.state_ttl), now)
              answer == IsLoop(Len(kept), detector.max_same_state)
          IN  detector' =
                [detector EXCEPT
                   !.now = now,
                   !.state_history =
                       Recorded(detector.state_history, state_key,
                                AfterVerdict(kept, answer)),
                   !.log = Append(@, [call |-> "record_state", state_key |-> state_key,
                                      at |-> now, returned |-> answer])]
    /\ UNCHANGED <<matcher_vars, validator, retry, normalizer, executions, agent>>

\* clear()
Clear ==
    /\ Len(detector.log) < MaxRecords
    /\ detector' = [detector EXCEPT
                      !.state_history = << >>,
                      !.log = Append(@, [call |-> "clear", state_key |-> "",
                                         at |-> detector.now, returned |-> FALSE])]
    /\ UNCHANGED <<matcher_vars, validator, retry, normalizer, executions, agent>>

NextDetector ==
    \/ RecordState
    \/ Clear

SpecDetector == InitDetector /\ [][NextDetector]_vars

-----------------------------------------------------------------------------
(* utils/normalizer.py: the functions called on their own, outside a match. *)

MaxWords == 2
MaxApplications == 2

\* Words of the texts the functions are given.
NormTokens == {"ID", "De", "y/o", "Nombre", "nom", "Correo", "electrónico"}

\* The heads and the alternates of FIELD_SYNONYMS as texts.
Phrasings ==
    UNION {{FIELD_SYNONYMS[k][1]} \cup Range(FIELD_SYNONYMS[k][2]) :
              k \in 1..Len(FIELD_SYNONYMS)}

\* Words of the texts given to get_canonical_key: abbreviations as they are
\* typed, alone, inside a longer word and joined to a word by a hyphen.
KeyTokens == {"Ap", "apto", "ap-paterno", "Paterno", "N°", "nro"}

\* The abbreviations of the table of get_canonical_key as texts, and two of
\* them in upper case.
AbbreviationTexts ==
    {<<expansions[n][1]>> : n \in 1..Len(expansions)} \cup {<<"N°">>, <<"RUT">>}

NormTexts ==
    SeqsUpTo(NormTokens, MaxWords) \cup Phrasings
        \cup SeqsUpTo(KeyTokens, MaxWords) \cup AbbreviationTexts

\* A text and the remove_stopwords flag; `normalized` keeps what the calls of
\* normalize_text returned, the first on the text and each later one on what
\* the one before returned.
InitNormalizer ==
    /\ MatcherAside
    /\ validator = NoValidator
    /\ retry = NoRetry
    /\ detector = NoDetector
    /\ executions = NoExecutions
    /\ agent = NoAgent
    /\ \E text \in NormTexts, remove_stopwords \in BOOLEAN :
          normalizer = [text |-> text, remove_stopwords |-> remove_stopwords,
                        call |-> "none", normalized |-> << >>, text2 |-> << >>,
                        similarity |-> 0, synonyms |-> {},
                        canonical_key |-> << >>]

\* normalize_text(text, remove_stopwords), then on its own result.
NormalizeText ==
    /\ normalizer.call \in {"none", "normalize_text"}
    /\ Len(normalizer.normalized) < MaxApplications
    /\ LET given == IF normalizer.normalized = << >> THEN normalizer.text
                    ELSE normalizer.normalized[Len(normalizer.normalized)]
       IN  normalizer' =
             [normalizer EXCEPT
                !.call = "normalize_text",
                !.normalized =
                    Append(@, normalize_text(given, normalizer.remove_stopwords))]
    /\ UNCHANGED <<matcher_vars, validator, retry, detector, executions, agent>>

\* calculate_similarity(text, text2)
CalculateSimilarity ==
    /\ normalizer.call = "none"
    /\ \E text2 \in SeqsUpTo(NormTokens, MaxWords) :
          normalizer' =
             [normalizer EXCEPT
                !.call = "calculate_similarity",
                !.text2 = text2,
                !.similarity = calculate_similarity(normalizer.text, text2)]
    /\ UNCHANGED <<matcher_vars, validator, retry, detector, executions, agent>>

\* find_synonyms(text)
FindSynonyms ==
    /\ normalizer.call = "none"
    /\ normalizer' = [normalizer EXCEPT
                        !.call = "find_synonyms",
                        !.synonyms = find_synonyms(normalizer.text)]
    /\ UNCHANGED <<matcher_vars, validator, retry, detector, executions, agent>>

\* get_canonical_key(text)
GetCanonicalKey ==
    /\ normalizer.call = "none"
    /\ normalizer' = [normalizer EXCEPT
                        !.call = "get_canonical_key",
                        !.canonical_key = get_canonical_key(normalizer.text)]
    /\ UNCHANGED <<matcher_vars, validator, retry, detector, executions, agent>>

NextNormalizer ==
    \/ NormalizeText
    \/ CalculateSimilarity
    \/ FindSynonyms
    \/ GetCanonicalKey

SpecNormalizer == InitNormalizer /\ [][NextNormalizer]_vars

-----------------------------------------------------------------------------
(* Vocabulary of the properties. *)

\* match() has returned.
Returned == pc = "idle" /\ calls = 1

\* The loop of _perform_matching is about to take the entry qa_fields[qi] ...
AtTurn == pc = "matching" /\ qi <= Len(qa_fields)

\* ... and takes it in this step, appending NewVerdict.
TakesTurn == AtTurn /\ qi' = qi + 1

Entry == qa_fields[qi]

NewVerdict == match_results'[Len(match_results')]

FieldKeys == {fields[k].canonical_key : k \in 1..Len(fields)}

\* The keys of the discovered fields no verdict has claimed so far.
UnclaimedKeys == FieldKeys \ matched_found_fields

\* The verdicts that claim a field, by position.
Claims == {k \in 1..Len(match_results) : match_results[k].found_field # None}

\* The lines of the checklist file that are entries.
EntryLines == SelectSeq(qa_file, LAMBDA line : line # << >> /\ line[1] # "#")

\* The combined score of a field for an entry, under the ratios known: no
\* score when the ratio is not known, which is when none can exceed the threshold.
HasScore(qa_field, field, ratios) ==
    RatioFixed(RatioArgs(qa_field, field)) \/ RatioArgs(qa_field, field) \in DOMAIN ratios

ScoreOf(qa_field, field, ratios) ==
    (calculate_similarity(qa_field.original_text, LabelOf(field)) * 60)
        + (24 * (IF RatioArgs(qa_field, field)[1] = RatioArgs(qa_field, field)[2] THEN 100
                 ELSE IF RatioFixed(RatioArgs(qa_field, field)) THEN 0
                 ELSE ratios[RatioArgs(qa_field, field)]))

\* The fields, by position, that are candidates of the similarity tier for the
\* entry: their key is unclaimed and their score exceeds the threshold.
Candidates(qa_field, matched, ratios) ==
    {k \in 1..Len(fields) :
        /\ fields[k].canonical_key \notin matched
        /\ HasScore(qa_field, fields[k], ratios)
        /\ ScoreOf(qa_field, fields[k], ratios) > threshold}

-----------------------------------------------------------------------------
(* C1: in one run of match() no canonical key is the found_field of more    *)
(* than one verdict.                                                        *)
C1_OneToOne ==
    \A i, j \in Claims :
        i # j => match_results[i].found_field # match_results[j].found_field

\* An entry whose key had been claimed by an earlier entry got its verdict.
C1_Witness ==
    \E i, j \in 1..Len(match_results) :
        /\ i < j
        /\ match_results[i].found_field = qa_fields[j].canonical_key
        /\ match_results[j].found_field # qa_fields[j].canonical_key

(* C2: after match() every discovered field is accounted for exactly once:  *)
(* the fields of a key are as many as the verdicts that claim the key plus  *)
(* the extras that report it.                                               *)
C2_EveryFieldOnce ==
    Returned =>
        \A key \in FieldKeys :
            Cardinality({k \in 1..Len(fields) : fields[k].canonical_key = key})
                = Cardinality({k \in Claims : match_results[k].found_field = key})
                    + Cardinality({k \in 1..Len(extra_fields) : extra_fields[k] = key})

(* C3: match() on a fresh Matcher yields one verdict per entry of the       *)
(* checklist, in the order of the checklist.                                *)
C3_OneVerdictPerEntry ==
    /\ pc = "matching" => Len(match_results) = qi - 1
    /\ Returned =>
        /\ Len(match_results) = Len(EntryLines)
        /\ \A k \in 1..Len(EntryLines) : match_results[k].qa_field = EntryLines[k]
        /\ result.total_qa_fields = Len(result.match_results)

\* A run over two entries with verdicts of different status.
C3_Witness ==
    /\ Returned
    /\ Len(match_results) = 2
    /\ match_results[1].status = "FALTANTE"
    /\ match_results[2].status = "PRESENTE"

(* C4: the entries are taken in list order against one pool: the pool at an *)
(* entry's turn is what the entries before it claimed, at whatever tier,    *)
(* and the entry is given no key of the pool.                               *)
C4_SharedPool ==
    [][TakesTurn =>
        /\ Len(match_results) = qi - 1
        /\ matched_found_fields = {match_results[k].found_field : k \in Claims}
        /\ NewVerdict.qa_field = Entry.original_text
        /\ NewVerdict.found_field \notin matched_found_fields
        /\ matched_found_fields' = {match_results'[k].found_field : k \in Claims'}]_vars

\* An entry whose key equals the key a similarity match had claimed before.
C4_Witness ==
    \E i, j \in 1..Len(match_results) :
        /\ i < j
        /\ match_results[i].match_type = "similarity"
        /\ match_results[i].found_field = qa_fields[j].canonical_key
        /\ match_results[j].status = "FALTANTE"

(* C5: an entry whose key is the key of an unclaimed field is PRESENTE with *)
(* that key, similarity 1.0 and tier exact, and no other tier is consulted. *)
C5_ExactTier ==
    [][TakesTurn /\ Entry.canonical_key \in UnclaimedKeys =>
        /\ NewVerdict = [qa_field |-> Entry.original_text, status |-> "PRESENTE",
                         found_field |-> Entry.canonical_key, similarity |-> 6000,
                         match_type |-> "exact"]
        /\ fuzz_ratio' = fuzz_ratio]_vars

\* An exact match of an entry that had a candidate for the similarity tier too.
C5_Witness ==
    /\ pc = "matching"
    /\ qi = 2
    /\ match_results[1].match_type = "exact"
    /\ \E k \in 1..Len(fields) :
          /\ fields[k].canonical_key # match_results[1].found_field
          /\ calculate_similarity(qa_fields[1].original_text, LabelOf(fields[k])) = 60

(* C6: the synonym tier acts only when the exact tier claimed nothing; then *)
(* a synonym that is the key of an unclaimed field gives PRESENTE with such *)
(* a key, similarity 0.95 and tier synonym; claimed keys are passed over.   *)
C6_SynonymTier ==
    [][TakesTurn =>
        /\ (Entry.canonical_key \notin UnclaimedKeys
              /\ Entry.synonyms \cap UnclaimedKeys # {})
            => /\ NewVerdict.match_type = "synonym"
               /\ NewVerdict.status = "PRESENTE"
               /\ NewVerdict.similarity = 5700
               /\ NewVerdict.qa_field = Entry.original_text
        /\ NewVerdict.match_type = "synonym"
            => /\ Entry.canonical_key \notin UnclaimedKeys
               /\ NewVerdict.found_field \in Entry.synonyms \cap UnclaimedKeys]_vars

\* A synonym match that passed over a synonym whose field was claimed.
C6_Witness ==
    /\ pc = "matching"
    /\ qi = 3
    /\ match_results[2].match_type = "synonym"
    /\ match_results[1].found_field \in qa_fields[2].synonyms

(* C7: when the exact and the synonym tier claim nothing, the similarity    *)
(* tier claims the unclaimed field of highest combined score among those    *)
(* over the threshold, the earliest in input order among equals.            *)
C7_BestCandidate ==
    [][TakesTurn /\ Entry.canonical_key \notin UnclaimedKeys
                 /\ Entry.synonyms \cap UnclaimedKeys = {} =>
        LET cands == Candidates(Entry, matched_found_fields, fuzz_ratio')
            Score(k) == ScoreOf(Entry, fields[k], fuzz_ratio')
        IN  IF cands = {} THEN NewVerdict.match_type = "none"
            ELSE LET best == CHOOSE k \in cands :
                                \A j \in cands : \/ Score(k) > Score(j)
                                                 \/ Score(k) = Score(j) /\ k <= j
                 IN  /\ NewVerdict.match_type = "similarity"
                     /\ NewVerdict.found_field = fields[best].canonical_key
                     /\ NewVerdict.similarity = Score(best)]_vars

(* C8: a similarity match has a combined score over the threshold, the      *)
(* score of an unclaimed field; a best score at or under the threshold      *)
(* gives none.                                                              *)
C8_OverThreshold ==
    [][TakesTurn /\ NewVerdict.match_type = "similarity" =>
        /\ NewVerdict.similarity > threshold
        /\ \E k \in Candidates(Entry, matched_found_fields, fuzz_ratio') :
              /\ fields[k].canonical_key = NewVerdict.found_field
              /\ ScoreOf(Entry, fields[k], fuzz_ratio') = NewVerdict.similarity]_vars

\* An entry left FALTANTE whose best candidate scored the threshold exactly.
C8_Witness ==
    \E k \in 1..Len(match_results) :
        /\ match_results[k].status = "FALTANTE"
        /\ \E f \in 1..Len(fields) :
              /\ HasScore(qa_fields[k], fields[f], fuzz_ratio)
              /\ ScoreOf(qa_fields[k], fields[f], fuzz_ratio) = threshold

C10_MissingIffNoClaim ==
    /\ \A k \in 1..Len(match_results) :
          IF match_results[k].status = "FALTANTE"
          THEN /\ match_results[k].found_field = None
               /\ match_results[k].similarity = 0
               /\ match_results[k].match_type = "none"
          ELSE /\ match_results[k].status \in {"PRESENTE", "POTENCIAL_EQUIVALENTE"}
               /\ match_results[k].match_type \in {"exact", "synonym", "similarity"}
               /\ match_results[k].found_field \in FieldKeys
               /\ match_results[k].found_field \in matched_found_fields
    /\ Cardinality(matched_found_fields)
          = Cardinality({k \in 1..Len(match_results) : match_results[k].status # "FALTANTE"})

\* A FALTANTE verdict beside a verdict that claims the field of the empty key.
C10_Witness ==
    \E i, j \in 1..Len(match_results) :
        /\ match_results[i].status = "FALTANTE"
        /\ match_results[j].status = "PRESENTE"
        /\ match_results[j].found_field = << >>

(* C11: match() succeeds on empty inputs.  A checklist without entries      *)
(* gives no verdict, every discovered field among the extras, in input      *)
(* order, and coverage 0; no discovered field gives a result in which no    *)
(* verdict claims a field and the extras are empty.                         *)
C11_EmptyInputs ==
    Returned =>
        /\ result.success
        /\ EntryLines = << >> =>
              /\ result.match_results = << >>
              /\ result.extra_fields = [k \in 1..Len(fields) |-> fields[k].canonical_key]
              /\ result.statistics.extra_fields = Len(fields)
              /\ result.statistics.coverage_percentage = 0
        /\ fields = << >> =>
              /\ Len(result.match_results) = Len(EntryLines)
              /\ \A k \in 1..Len(result.match_results) :
                    result.match_results[k].found_field = None
              /\ result.extra_fields = << >>
              /\ result.statistics.should_be_required = << >>

\* A checklist of comment lines only, run against two discovered fields.
C11_Witness ==
    /\ Returned
    /\ Len(qa_file) = 2
    /\ EntryLines = << >>
    /\ Len(fields) = 2
    /\ Len(result.extra_fields) = 2

(* C12: an entry of empty canonical key that meets the one discovered field *)
(* of empty key, still unclaimed, is PRESENTE/exact, and the field is       *)
(* claimed everywhere: it is in the pool, it is not among the extras, and   *)
(* it is in should_be_required when the Validator found it optional.        *)
C12_EmptyKeyClaimed ==
    Returned =>
        \A k \in 1..Len(match_results) :
            (/\ qa_fields[k].canonical_key = << >>
             /\ Cardinality({f \in 1..Len(fields) : fields[f].canonical_key = << >>}) = 1
             /\ \A j \in 1..(k - 1) : match_results[j].found_field # << >>)
            => /\ match_results[k].status = "PRESENTE"
               /\ match_results[k].match_type = "exact"
               /\ match_results[k].found_field = << >>
               /\ << >> \in matched_found_fields
               /\ << >> \notin Range(extra_fields)
               /\ << >> \in optional_fields
                    => << >> \in Range(result.statistics.should_be_required)

-----------------------------------------------------------------------------
(* Vocabulary of the properties of the Validator. *)

\* The turns of the loop of validate() that classified a field.
Classified ==
    {k \in 1..Len(validator.detected) : validator.detected[k] # "skipped"}

\* The turn that has just classified a field, while the loop is running.
JustClassified ==
    IF validator.pc = "fields" THEN Classified \cap {validator.pos - 1} ELSE {}

\* The six signals of a field under a probe, each "True", "False" or "None"
\* (unknown): required attribute, aria-required, asterisk in the label,
\* required keyword, validation constraint, blur probe.
SignalValues(field, probe) ==
    << IF field.required_flag THEN "True" ELSE "False",
       field.aria_required,
       IF ~Truthy(field.label_visible) THEN "None"
       ELSE IF Range(field.label_visible) \cap AsteriskTokens # {} THEN "True" ELSE "False",
       IF \E n \in 1..Len(REQUIRED_KEYWORDS) :
              KeywordIn(REQUIRED_KEYWORDS[n], combined_text(field))
       THEN "True" ELSE "False",
       IF HasRules(field) THEN "True" ELSE "False",
       _test_blur_validation(probe) >>

TrueCount(values) == Cardinality({n \in 1..Len(values) : values[n] = "True"})

\* Optional < Uncertain < Required, on the returns of _detect_required.
Rank(is_required) ==
    IF is_required = "False" THEN 0 ELSE IF is_required = "None" THEN 1 ELSE 2

\* `more` is `values` with one signal turned from false or unknown to true.
OneMoreTrue(values, more) ==
    more \in {[values EXCEPT ![n] = "True"] : n \in 1..Len(values)} \ {values}

\* The signals and the verdict of every field of the universe under every
\* probe.
Classifications ==
    { <<SignalValues(field, probe), _detect_required(field, probe)>> :
        field \in FormUniverse, probe \in ProbeOutcomes }

\* `values` with every unknown signal turned to false.
UnknownAsFalse(values) ==
    [n \in 1..Len(values) |-> IF values[n] = "None" THEN "False" ELSE values[n]]

(* C13: the verdict of a field is fixed by the number of its six signals    *)
(* that are true: none gives Optional (False), one Uncertain (None), two or *)
(* more Required (True); the key goes to the list of that verdict.          *)
C13_VerdictByCount ==
    \A k \in Classified :
        LET positive == TrueCount(SignalValues(validator.fields[k], validator.probes[k]))
        IN  /\ positive = 0 => validator.detected[k] = "False"
            /\ positive = 1 => validator.detected[k] = "None"
            /\ positive >= 2 => validator.detected[k] = "True"
            /\ validator.pc = "done" =>
                 validator.fields[k].canonical_key \in
                    Range(IF positive = 0 THEN validator.result.optional_fields
                          ELSE IF positive = 1 THEN validator.result.uncertain_fields
                          ELSE validator.result.required_fields)

\* A field whose one true signal is its validation constraint, the others
\* false or unknown, ends among the uncertain fields.
C13_Witness ==
    /\ validator.pc = "done"
    /\ \E k \in Classified :
          /\ SignalValues(validator.fields[k], validator.probes[k])
                = <<"False", "None", "False", "False", "True", "None">>
          /\ validator.result.uncertain_fields = <<validator.fields[k].canonical_key>>

(* C14: signals that are those of the field just classified but for one     *)
(* signal turned from false or unknown to true never get a lower verdict in *)
(* the order Optional < Uncertain < Required.                               *)
C14_Monotone ==
    \A k \in JustClassified :
        LET values == SignalValues(validator.fields[k], validator.probes[k])
        IN  \A other \in {c \in Classifications : OneMoreTrue(values, c[1])} :
                Rank(other[2]) >= Rank(validator.detected[k])

\* A field of three true signals classified, with one of two true signals
\* in the universe below it.
C14_Witness ==
    \E k \in JustClassified :
        /\ TrueCount(SignalValues(validator.fields[k], validator.probes[k])) = 3
        /\ validator.detected[k] = "True"
        /\ \E other \in Classifications :
              /\ OneMoreTrue(other[1],
                             SignalValues(validator.fields[k], validator.probes[k]))
              /\ other[2] = "True"

(* C15: an unknown signal is not counted and the probe never fails the      *)
(* classification: the field just classified has the verdict of the signals *)
(* that have false wherever it has unknown, whether aria-required is absent *)
(* or the blur probe raised, timed out or did not see the field.            *)
C15_UnknownAsFalse ==
    \A k \in JustClassified :
        /\ validator.detected[k] \in {"True", "False", "None"}
        /\ LET values == UnknownAsFalse(SignalValues(validator.fields[k],
                                                     validator.probes[k]))
           IN  \A other \in Classifications :
                   other[1] = values => other[2] = validator.detected[k]

\* A field without aria-required whose probe raised, classified beside its
\* twin in the universe that has false for both signals.
C15_Witness ==
    \E k \in JustClassified :
        /\ validator.probes[k] = "raises"
        /\ validator.fields[k].aria_required = "None"
        /\ validator.fields[k].required_flag
        /\ validator.detected[k] = "None"
        /\ \E other \in Classifications :
              other[1] = UnknownAsFalse(SignalValues(validator.fields[k], "raises"))

-----------------------------------------------------------------------------
(* Vocabulary of the properties of RetryStrategy.execute. *)

\* The invocations of the operation that failed, by position.
Failures == {k \in 1..Len(retry.log) : retry.log[k] \in Causes}

\* execute() has returned after an invocation that succeeded ...
ReturnedSuccess ==
    /\ retry.pc = "done"
    /\ retry.log # << >>
    /\ retry.log[Len(retry.log)] \in OperationResults

\* ... or after every attempt failed.
Exhausted ==
    /\ retry.pc = "done"
    /\ Failures = 1..Len(retry.log)

(* C16: execute never retries after a success: an operation that fails k    *)
(* times and then succeeds is invoked k + 1 times, the success is the last  *)
(* invocation and its result is what execute returns.                       *)
C16_NoRetryAfterSuccess ==
    /\ \A k \in 1..(Len(retry.log) - 1) : retry.log[k] \in Causes
    /\ retry.log # << >> /\ retry.log[Len(retry.log)] \in OperationResults =>
          /\ retry.pc = "done"
          /\ retry.returned = [value |-> retry.log[Len(retry.log)]]
          /\ Len(retry.log) = Cardinality(Failures) + 1
          /\ Cardinality(Failures) <= retry.max_retries

\* Two failures, then a success that returns None, with max_retries = 3.
C16_Witness ==
    /\ retry.max_retries = 3
    /\ retry.log = <<"ValueError", "TimeoutError", "None">>
    /\ retry.pc = "done"

(* C17: the operation is never invoked more than max_retries + 1 times; an  *)
(* operation that fails every time is invoked exactly max_retries + 1       *)
(* times, at which execute returns reporting exhaustion; and execute        *)
(* terminates.                                                              *)
C17_BoundedAttempts ==
    /\ [](/\ Len(retry.log) <= retry.max_retries + 1
          /\ Exhausted => Len(retry.log) = retry.max_retries + 1
          /\ (Failures = 1..Len(retry.log) /\ Len(retry.log) = retry.max_retries + 1)
                => Exhausted /\ retry.returned = [value |-> "None"])
    /\ <>(retry.pc \in {"done", "raised"})

\* Four failures in a row with max_retries = 3.
C17_Witness ==
    /\ retry.max_retries = 3
    /\ Exhausted
    /\ Len(retry.log) = 4

(* C18: when every attempt failed, execute does not raise and returns an    *)
(* outcome that carries the cause of the last failure and is none of the    *)
(* values a successful operation returns, None among them.                  *)
C18_ExhaustionDistinct ==
    Exhausted =>
        /\ retry.returned \notin {[value |-> v] : v \in OperationResults}
        /\ "cause" \in DOMAIN retry.returned
        /\ retry.returned.cause = retry.log[Len(retry.log)]

(* C19: the k-th failed attempt (from 0) that is followed by another        *)
(* attempt is followed by a wait of min(base_delay * base^k, max_delay); no *)
(* wait exceeds max_delay; there is no wait after a success or after the    *)
(* last failed attempt, so an exhausted run waits max_retries times.        *)
C19_Backoff ==
    /\ \A k \in 1..Len(retry.slept) :
          /\ retry.slept[k] = Min(retry.base_delay * Power(retry.exponential_base, k - 1),
                                  retry.max_delay)
          /\ retry.slept[k] <= retry.max_delay
    /\ retry.pc = "sleeping" => Len(retry.slept) = Cardinality(Failures)
    /\ retry.pc = "attempt" => Len(retry.slept) = Len(retry.log)
    /\ ReturnedSuccess => Len(retry.slept) = Cardinality(Failures)
    /\ Exhausted => /\ Len(retry.slept) = Cardinality(Failures) - 1
                    /\ Len(retry.slept) = retry.max_retries

\* An exhausted run of max_retries = 3 whose third wait was cut to max_delay.
C19_Witness ==
    /\ Exhausted
    /\ retry.slept = <<1, 2, 3>>
    /\ retry.exponential_base = 2

-----------------------------------------------------------------------------
(* Vocabulary of the properties of the LoopDetector. *)

\* The calls of record_state with the key that a fresh detector has had: the
\* positions in the log before any clear().
CallsOf(state_key) ==
    {k \in 1..Len(detector.log) :
        /\ detector.log[k].call = "record_state"
        /\ detector.log[k].state_key = state_key
        /\ \A j \in 1..k : detector.log[j].call # "clear"}

\* The call at position k is the n-th of its key.
Nth(state_key, k) == Cardinality({j \in CallsOf(state_key) : j <= k})

\* The call at position k falls in the TTL window the first call opened.
InWindow(state_key, k) ==
    \A j \in CallsOf(state_key) :
        j <= k => detector.log[k].at - detector.log[j].at < detector.state_ttl

KnownHistory(state_key) ==
    IF state_key \in DOMAIN detector.state_history
    THEN detector.state_history[state_key] ELSE << >>

(* C21: record_state removes from the key's history exactly the entries     *)
(* older than the TTL: the recordings whose age does not exceed the TTL,     *)
(* one that is exactly TTL old included, survive and are kept together with  *)
(* the current call.                                                         *)
C21_KeepsAgeUpToTTL ==
    [][ LET n == Len(detector'.log)
            e == detector'.log[n]
        IN  (n = Len(detector.log) + 1 /\ e.call = "record_state") =>
                detector'.state_history[e.state_key] =
                    Append(SelectSeq(KnownHistory(e.state_key),
                                     LAMBDA ts : e.at - ts <= detector.state_ttl),
                           e.at) ]_vars

-----------------------------------------------------------------------------
(* Vocabulary of the properties of the normalizer. *)

\* The Jaccard coefficient of the two keyword sets, in 1/60, 0 if either set
\* is empty.
Jaccard(a, b) ==
    LET ka == extract_keywords(a)
        kb == extract_keywords(b)
    IN  IF ka = {} \/ kb = {} THEN 0
        ELSE (Cardinality(ka \cap kb) * 60) \div Cardinality(ka \cup kb)

(* C22: calculate_similarity(a, b) is exactly 1.0 whenever the canonical     *)
(* keys of a and b are equal, so similarity(a, a) = 1.0 for every non-empty  *)
(* a whatever the length of its words; only when the keys differ is it the   *)
(* Jaccard coefficient of the keyword sets.  Stated for the texts that have  *)
(* a canonical key, which leaves the empty text out.                         *)
C22_OneOnEqualKeys ==
    LET a == normalizer.text
        b == normalizer.text2
    IN  (/\ normalizer.call = "calculate_similarity"
         /\ get_canonical_key(a) # << >>
         /\ get_canonical_key(b) # << >>) =>
            normalizer.similarity =
                IF get_canonical_key(a) = get_canonical_key(b) THEN 60
                ELSE Jaccard(a, b)

(* C23: normalize_text is idempotent, with and without the stopwords taken   *)
(* out: applied to its own result it returns that result again; the empty    *)
(* text gives the empty text.                                                *)
C23_Idempotent ==
    /\ \A k \in 2..Len(normalizer.normalized) :
          normalizer.normalized[k] = normalizer.normalized[k - 1]
    /\ (normalizer.text = << >> /\ normalizer.normalized # << >>)
          => normalizer.normalized[1] = << >>

\* normalize_text took a stopword out and folded a word, and was then
\* applied to what it returned.
C23_Witness ==
    /\ normalizer.text = <<"De", "electrónico">>
    /\ normalizer.remove_stopwords
    /\ Len(normalizer.normalized) = 2
    /\ normalizer.normalized[2] = <<"electronico">>

\* The head and the alternates of entry k of FIELD_SYNONYMS, normalized.
Family(k) ==
    {normalize_text(FIELD_SYNONYMS[k][1], TRUE)} \cup NormalizedAll(FIELD_SYNONYMS[k][2])

Families == [k \in 1..Len(FIELD_SYNONYMS) |-> Family(k)]

(* C24: find_synonyms returns the normalized text with the normalized head   *)
(* and alternates of the entry it is a head or an alternate of, the          *)
(* normalized text alone when there is no such entry, and never phrasings of *)
(* two different heads.                                                      *)
C24_OneFamily ==
    normalizer.call = "find_synonyms" =>
        LET normalized == normalize_text(normalizer.text, TRUE)
            hits == {k \in DOMAIN Families : normalized \in Families[k]}
            got == normalizer.synonyms
        IN  /\ hits = {} => got = {normalized}
            /\ hits # {} => \E k \in hits : got = {normalized} \cup Families[k]
            /\ \A k1, k2 \in DOMAIN Families :
                  (got \cap Families[k1] # {} /\ got \cap Families[k2] # {})
                      => k1 = k2

\* An alternate of two words, given with an accent, brings its whole family.
C24_Witness ==
    /\ normalizer.call = "find_synonyms"
    /\ normalizer.text = <<"Correo", "electrónico">>
    /\ normalizer.synonyms =
          {<<"email">>, <<"correo">>, <<"correo", "electronico">>,
           <<"e-mail">>, <<"mail">>}

-----------------------------------------------------------------------------
(* Vocabulary of the properties of the checklist file. *)

\* The lines of the sample that are neither blank nor comments.
SampleEntries ==
    SelectSeq(sample_fields, LAMBDA line : line # << >> /\ line[1] # "#")

(* C25: when the checklist file does not exist, match() first writes the     *)
(* default sample at the path and goes on to match against its entries,      *)
(* the comment and blank lines left out; the run returns with success.       *)
C25_AbsentMaterialized ==
    [][ /\ (qa_file = Absent /\ calls' = 1) =>
              /\ qa_file' = sample_fields
              /\ pc' = "matching"
              /\ qa_fields' =
                    [k \in 1..Len(SampleEntries) |-> QAField(SampleEntries[k])]
        /\ (qa_file = sample_fields /\ result' # result) =>
              /\ result'.success
              /\ result'.total_qa_fields = Len(SampleEntries)
              /\ [k \in 1..Len(result'.match_results) |->
                      result'.match_results[k].qa_field] = SampleEntries ]_vars

\* The run on the absent file has returned the verdicts of the 17 entries of
\* the sample, one of them for a field that was found.
C25_Witness ==
    /\ Returned
    /\ qa_file = sample_fields
    /\ result.success
    /\ Len(result.match_results) = 17
    /\ \E k \in 1..17 :
          /\ result.match_results[k].qa_field = <<"Email">>
          /\ result.match_results[k].status = "PRESENTE"

(* C26: a checklist file that exists but cannot be read or decoded is        *)
(* replaced by the default sample and matched against; match() does not      *)
(* return an error result for it.                                            *)
C26_MalformedRecovered ==
    [][(qa_file = Malformed /\ calls' = 1) =>
          /\ qa_file' = sample_fields
          /\ pc' = "matching"
          /\ result' = NoReturn]_vars

-----------------------------------------------------------------------------
(* Vocabulary of the properties of the statistics. *)

\* The verdicts of the result with the status.
WithStatus(status) ==
    {k \in 1..Len(result.match_results) : result.match_results[k].status = status}

(* C27: in the statistics, present + missing + potential_equivalent is the   *)
(* number of verdicts, and coverage_percentage is present over the number of *)
(* checklist entries times 100, 0 for an empty checklist: the verdicts       *)
(* POTENCIAL_EQUIVALENTE do not count toward it, and it lies in 0..100.      *)
C27_Aggregates ==
    Returned =>
        LET stats == result.statistics
        IN  /\ stats.present + stats.missing + stats.potential_equivalent
                  = Len(result.match_results)
            /\ stats.present = Cardinality(WithStatus("PRESENTE"))
            /\ stats.potential_equivalent
                  = Cardinality(WithStatus("POTENCIAL_EQUIVALENTE"))
            /\ qa_fields = << >> => stats.coverage_percentage = 0
            /\ qa_fields # << >> =>
                  stats.coverage_percentage * Len(qa_fields) = stats.present * 102000
            /\ stats.coverage_percentage \in 0..102000

\* Two entries, one PRESENTE and one POTENCIAL_EQUIVALENTE: coverage 50.
C27_Witness ==
    /\ Returned
    /\ result.statistics.present = 1
    /\ result.statistics.potential_equivalent = 1
    /\ result.statistics.missing = 0
    /\ result.statistics.coverage_percentage = 51000

(* C28: should_be_required holds every verdict's claimed field that the      *)
(* Validator found optional, and no claimed field that it did not find       *)
(* optional.                                                                 *)
C28_OptionalClaims ==
    Returned =>
        \A k \in 1..Len(result.match_results) :
            LET claimed == result.match_results[k].found_field
            IN  claimed # None =>
                    (claimed \in Range(result.statistics.should_be_required)
                        <=> claimed \in optional_fields)

(* C30: when the task of execute() is cancelled during the sleep between two *)
(* attempts, the CancelledError leaves execute(): the operation is not       *)
(* invoked again and execute() returns neither a result nor the None of      *)
(* exhaustion.                                                               *)
C30_SleepCancellable ==
    retry.cancelled = "sleeping" =>
        /\ retry.pc = "raised"
        /\ retry.returned = NoReturn
        /\ Len(retry.log) = Len(retry.slept)
        /\ retry.log[Len(retry.log)] \in Causes

\* Cancelled in the second sleep, with retries left.
C30_Witness ==
    /\ retry.cancelled = "sleeping"
    /\ retry.max_retries = 3
    /\ Len(retry.slept) = 2
    /\ retry.pc = "raised"

-----------------------------------------------------------------------------
(* Vocabulary of the properties of execute() calls that run at once. *)

\* The failures among the outcomes of the task's own operation.
TaskFailures(e) == {k \in 1..Len(e.log) : e.log[k] \in Causes}

\* What the outcomes of its own operation make of a task: the delays it has
\* asked for, where it stands and what it has returned.
OwnCourse(e) ==
    LET n == Len(e.log)
        failures == Cardinality(TaskFailures(e))
        delays == [k \in 1..Min(failures, e.max_retries) |->
                      Min(e.base_delay * Power(e.exponential_base, k - 1), e.max_delay)]
    IN  IF n > 0 /\ e.log[n] \in OperationResults
        THEN [attempts |-> n, slept |-> delays, ended |-> TRUE,
              returned |-> [value |-> e.log[n]]]
        ELSE IF failures = e.max_retries + 1
        THEN [attempts |-> n, slept |-> delays, ended |-> TRUE,
              returned |-> [value |-> "None"]]
        ELSE [attempts |-> n, slept |-> delays, ended |-> FALSE,
              returned |-> NoReturn]

(* C29: execute() calls that run at once, on one RetryStrategy or on two,    *)
(* are independent: under every interleaving the number of attempts of a     *)
(* call, its delays and what it returns follow from the outcomes of its own  *)
(* operation alone.                                                          *)
C29_Independent ==
    \A t \in DOMAIN executions :
        LET e == executions[t]
            own == OwnCourse(e)
        IN  /\ Len(e.log) <= e.max_retries + 1
            /\ \A k \in 1..(Len(e.log) - 1) : e.log[k] \in Causes
            /\ e.slept = own.slept
            /\ (e.pc = "done") = own.ended
            /\ e.returned = own.returned
            /\ e.pc = "attempt" => e.attempt = Len(e.log)
            /\ e.pc = "sleeping" => e.attempt = Len(e.log) - 1

\* On one RetryStrategy of two retries, the first call has used up its three
\* attempts while the second is in its first sleep.
C29_Witness ==
    /\ executions # NoExecutions
    /\ executions[1].self = executions[2].self
    /\ executions[1].max_retries = 2
    /\ executions[1].pc = "done"
    /\ Cardinality(TaskFailures(executions[1])) = 3
    /\ executions[2].pc = "sleeping"
    /\ Len(executions[2].log) = 1

-----------------------------------------------------------------------------
(* Vocabulary of the properties of get_canonical_key. *)

\* The abbreviations of the table.
Abbreviations == {expansions[n][1] : n \in 1..Len(expansions)}

ExpansionOf(abbr) ==
    expansions[CHOOSE n \in 1..Len(expansions) : expansions[n][1] = abbr][2]

(* C31: get_canonical_key expands an abbreviation only where it is a whole   *)
(* word of the normalized text: a longer word that holds an abbreviation,    *)
(* also one that joins it to another word with a hyphen, is left as it is.   *)
C31_WholeWordsOnly ==
    normalizer.call = "get_canonical_key" =>
        LET normalized == normalize_text(normalizer.text, TRUE)
        IN  normalizer.canonical_key =
                Flatten([k \in 1..Len(normalized) |->
                            IF normalized[k] \in Abbreviations
                            THEN ExpansionOf(normalized[k])
                            ELSE <<normalized[k]>>])

(* C32: the canonical key of a text that is one abbreviation of the table    *)
(* alone is the expansion of that abbreviation: 'N°' and 'nro' give          *)
(* 'numero', 'RUT' gives 'rol unico tributario'.                             *)
C32_AbbreviationAlone ==
    normalizer.call = "get_canonical_key" =>
        /\ \A n \in 1..Len(expansions) :
              normalizer.text = <<expansions[n][1]>>
                  => normalizer.canonical_key = expansions[n][2]
        /\ normalizer.text = <<"N°">> => normalizer.canonical_key = <<"numero">>
        /\ normalizer.text = <<"RUT">>
              => normalizer.canonical_key = <<"rol", "unico", "tributario">>

(* C33: a second match() on the same Matcher, with the checklist file and    *)
(* the fields unchanged, returns the same total_qa_fields, verdicts, extras  *)
(* and statistics as the first: the dictionary of the second return equals   *)
(* the one of the first, which `result` holds until then.                    *)
C33_SameOnSecondCall ==
    [][(calls = 2 /\ pc = "extras") => result' = result]_vars

(* C34: match() is deterministic: on the same checklist, fields and          *)
(* threshold every run gives the same verdicts.  When the entry at hand      *)
(* has no exact match, the runs of the synonym tier all return the same      *)
(* result, also when several synonyms are keys of different unclaimed fields.*)
C34_Deterministic ==
    AtTurn =>
        (_try_exact_match(qa_fields[qi], found_fields_index, matched_found_fields)
            = NoMatch
         => Cardinality(_try_synonym_match(qa_fields[qi], found_fields_index,
                                           matched_found_fields)) <= 1)

\* The keys of the fields of the form, in order, that are visible and enabled
\* and that _detect_required gives the verdict under the probe made on them.
KeysWithVerdict(is_required) ==
    LET form == validator.fields
        Pick(k) == IF /\ form[k].visible
                      /\ form[k].enabled
                      /\ _detect_required(form[k], validator.probes[k]) = is_required
                   THEN <<form[k].canonical_key>> ELSE << >>
    IN  Flatten([k \in 1..Len(form) |-> Pick(k)])

(* C35: after validate() on a fresh Validator the key of every visible and   *)
(* enabled field is in exactly one of required_fields, optional_fields and   *)
(* uncertain_fields, the list of its verdict, once for the field; the fields *)
(* that are not visible or not enabled are in none of the three.             *)
C35_OneListPerField ==
    validator.pc = "done" =>
        /\ validator.result.required_fields = KeysWithVerdict("True")
        /\ validator.result.optional_fields = KeysWithVerdict("False")
        /\ validator.result.uncertain_fields = KeysWithVerdict("None")
        /\ Len(validator.required_fields) + Len(validator.optional_fields)
              + Len(validator.uncertain_fields)
              = Cardinality({k \in 1..Len(validator.fields) :
                                validator.fields[k].visible /\ validator.fields[k].enabled})

\* validate() has returned for a form whose one field has a single positive
\* signal: its key is in uncertain_fields alone.
C35_Witness ==
    /\ validator.pc = "done"
    /\ Len(validator.fields) = 1
    /\ validator.fields[1].visible
    /\ validator.result.uncertain_fields = <<validator.fields[1].canonical_key>>
    /\ validator.result.required_fields = << >>
    /\ validator.result.optional_fields = << >>

\* The recordings of the key made before the call at position k of the log,
\* with no clear() between them and that call, that are inside the TTL window
\* at that call.
RecordingsInWindow(log, state_key, k) ==
    {i \in 1..(k - 1) :
        /\ log[i].call = "record_state"
        /\ log[i].state_key = state_key
        /\ \A c \in i..k : log[c].call # "clear"
        /\ log[k].at - log[i].at < detector.state_ttl}

(* C36: once record_state has returned true for a key, every further call   *)
(* of record_state with that key, with no clear() in between, made while at  *)
(* least max_same_state-1 earlier recordings of the key are still inside the *)
(* TTL window returns true as well: reporting a loop neither empties nor     *)
(* trims the history of the key.                                            *)
C36_LoopStaysReported ==
    \A j \in 1..Len(detector.log), k \in 1..Len(detector.log) :
        ( /\ j < k
          /\ detector.log[j].call = "record_state"
          /\ detector.log[j].returned = TRUE
          /\ detector.log[k].call = "record_state"
          /\ detector.log[k].state_key = detector.log[j].state_key
          /\ \A c \in j..k : detector.log[c].call # "clear"
          /\ Cardinality(RecordingsInWindow(detector.log, detector.log[k].state_key, k))
                >= detector.max_same_state - 1 )
        => detector.log[k].returned = TRUE

\* A call of "x" answers true, and a later call of "x", made at a later
\* time with enough recordings still in the window, answers true again.
C36_Witness ==
    /\ detector.max_same_state >= 2
    /\ \E j \in 1..Len(detector.log), k \in 1..Len(detector.log) :
          /\ j < k
          /\ detector.log[j].call = "record_state"
          /\ detector.log[j].state_key = "x"
          /\ detector.log[j].returned = TRUE
          /\ detector.log[k].call = "record_state"
          /\ detector.log[k].state_key = "x"
          /\ detector.log[k].at > detector.log[j].at
          /\ \A c \in j..k : detector.log[c].call # "clear"
          /\ Cardinality(RecordingsInWindow(detector.log, "x", k))
                >= detector.max_same_state - 1
          /\ detector.log[k].returned = TRUE

(* C37: record_state(k) changes the history of key k only: the history kept *)
(* for every other key, and with it the count and the verdict of that key,   *)
(* is what it was; and the call answers true only when the recordings of k   *)
(* itself that are inside the TTL window, the current one included, reach    *)
(* max_same_state, whatever the number of recordings of other keys.          *)
C37_OtherKeysUntouched ==
    [][ LET n == Len(detector'.log)
            e == detector'.log[n]
        IN  (n = Len(detector.log) + 1 /\ e.call = "record_state") =>
                /\ \A other \in StateKeys \ {e.state_key} :
                      /\ (other \in DOMAIN detector'.state_history)
                            <=> (other \in DOMAIN detector.state_history)
                      /\ other \in DOMAIN detector.state_history =>
                            detector'.state_history[other] = detector.state_history[other]
                /\ e.returned = TRUE =>
                      Cardinality(RecordingsInWindow(detector'.log, e.state_key, n)) + 1
                          >= detector.max_same_state
      ]_vars

\* Four calls that alternate between "x" and "y" under a threshold of three,
\* all inside the window: none reports a loop and each key keeps its own two
\* recordings.
C37_Witness ==
    /\ detector.max_same_state = 3
    /\ detector.state_ttl = 3
    /\ Len(detector.log) = 4
    /\ \A k \in 1..4 :
          /\ detector.log[k].call = "record_state"
          /\ detector.log[k].state_key = (IF k \in {1, 3} THEN "x" ELSE "y")
          /\ detector.log[k].returned = FALSE
    /\ detector.log[4].at < 3
    /\ "x" \in DOMAIN detector.state_history
    /\ "y" \in DOMAIN detector.state_history
    /\ Len(detector.state_history["x"]) = 2
    /\ Len(detector.state_history["y"]) = 2

(* C38: match() raises nothing to its caller: the exception that loading    *)
(* the checklist raises is returned as a result with success false, the      *)
(* message of the error and an empty match_results, and a call in which      *)
(* nothing is raised returns a result with success true.                     *)
C38_NeverRaises ==
    (calls = 1 /\ pc = "idle") =>
        /\ "success" \in DOMAIN result
        /\ "match_results" \in DOMAIN result
        /\ qa_file = Malformed =>
              /\ result.success = FALSE
              /\ result.error = "UnicodeDecodeError"
              /\ result.match_results = << >>
              /\ DOMAIN result = {"success", "error", "match_results"}
        /\ qa_file # Malformed => result.success = TRUE

\* match() has returned on a checklist that cannot be decoded, with a field
\* on the form: the result is the error, and no entry or verdict is kept.
C38_Witness ==
    /\ calls = 1
    /\ pc = "idle"
    /\ qa_file = Malformed
    /\ Len(fields) >= 1
    /\ result.success = FALSE
    /\ result.match_results = << >>
    /\ qa_fields = << >>

-----------------------------------------------------------------------------
(* main.py: _run_full_flow and _run_match_mode.  A mode is a call that is   *)
(* awaited and returns a dictionary with "success"; `trace` keeps the calls  *)
(* started and returned, in order.                                           *)

MaxExtracted == 2

\* The modes a flow goes through, in the order of its code.
Stages(mode) ==
    IF mode = "full"
    THEN <<"explorer", "extractor", "completer", "validator", "matcher">>
    ELSE <<"extractor", "validator", "matcher">>

\* Canonical keys of fields of a form.
ExtractedKeys == <<"rut", "nombre", "email", "telefono">>

\* self.results["extractor"]["fields"], as canonical keys.
ExtractedFields ==
    {SubSeq(ExtractedKeys, 1, n) : n \in 0..MaxExtracted}

\* self.results[name] raises KeyError: the flow has stored no such result.
Missing(results, name) == name \notin DOMAIN results

\* The condition of "# 5. Matcher QA", with the outcome of the validator
\* left out
MatcherMayStart_ExtractionOnly(results) ==
    IF Missing(results, "extractor") THEN "KeyError"
    ELSE IF results["extractor"].success THEN "yes" ELSE "no"

\* if self.results["extractor"].get("success") and
\*    self.results["validator"].get("success"): `and` reads the validator's
\* result only when the extraction succeeded.
MatcherMayStart(results) ==
    IF Missing(results, "extractor") THEN "KeyError"
    ELSE IF ~results["extractor"].success THEN "no"
    ELSE IF Missing(results, "validator") THEN "KeyError"
    ELSE IF results["validator"].success THEN "yes" ELSE "no"

\* Whether the flow calls the mode: the `if` in front of it.
MayStart(name, results) ==
    IF name \in {"explorer", "extractor"} THEN "yes"
    ELSE IF name \in {"completer", "validator"}
         THEN (IF Missing(results, "extractor") THEN "KeyError"
               ELSE IF results["extractor"].success THEN "yes" ELSE "no")
    ELSE MatcherMayStart(results)

\* The keys of the fields, in order, that were given the verdict.
WithVerdict(keys, verdicts, is_required) ==
    Flatten([k \in 1..Len(keys) |->
                IF verdicts[k] = is_required THEN <<keys[k]>> ELSE << >>])

\* The dictionaries the mode can return: with success or, from its except
\* branch, without.
Returns(name, results) ==
    IF name = "extractor"
    THEN [success : BOOLEAN, fields : ExtractedFields]
    ELSE IF name = "validator"
    THEN LET keys == results["extractor"].fields
         IN  {[success |-> ok,
               required_fields |-> WithVerdict(keys, verdicts, "True"),
               optional_fields |-> WithVerdict(keys, verdicts, "False")] :
                 ok \in BOOLEAN,
                 verdicts \in [1..Len(keys) -> {"True", "False", "None"}]}
    ELSE IF name = "matcher"
    THEN {[success |-> ok,
           total_found_fields |-> Len(results["extractor"].fields),
           required_fields |-> results["validator"].required_fields,
           optional_fields |-> results["validator"].optional_fields] :
             ok \in BOOLEAN}
    ELSE [success : BOOLEAN]

\* FormValidationAgent.__init__ and the request handler at the call of the
\* flow of config.mode.
InitFlow ==
    /\ MatcherAside
    /\ validator = NoValidator
    /\ retry = NoRetry
    /\ detector = NoDetector
    /\ normalizer = NoNormalizer
    /\ executions = NoExecutions
    /\ \E mode \in {"full", "match"} :
          agent = [mode |-> mode, stage |-> 1, awaiting |-> "", pc |-> "flow",
                   results |-> << >>, trace |-> << >>]

\* The flow reaches a mode whose condition holds, builds it and awaits it.
ModeStarts ==
    /\ agent.pc = "flow"
    /\ agent.awaiting = ""
    /\ agent.stage <= Len(Stages(agent.mode))
    /\ LET name == Stages(agent.mode)[agent.stage]
       IN  /\ MayStart(name, agent.results) = "yes"
           /\ agent' = [agent EXCEPT !.awaiting = name,
                                     !.trace = Append(@, <<name, "started">>)]
    /\ UNCHANGED <<matcher_vars, validator, retry, detector, normalizer, executions>>

\* The flow reaches a mode whose condition does not hold and goes past it;
\* a KeyError in the condition leaves the flow.
ModeSkipped ==
    /\ agent.pc = "flow"
    /\ agent.awaiting = ""
    /\ agent.stage <= Len(Stages(agent.mode))
    /\ LET name == Stages(agent.mode)[agent.stage]
           start == MayStart(name, agent.results)
       IN  /\ start # "yes"
           /\ agent' = IF start = "KeyError"
                       THEN [agent EXCEPT !.pc = "raised"]
                       ELSE [agent EXCEPT !.stage = @ + 1]
    /\ UNCHANGED <<matcher_vars, validator, retry, detector, normalizer, executions>>

\* The awaited mode returns and the flow stores its dictionary.
ModeReturns ==
    /\ agent.pc = "flow"
    /\ agent.awaiting # ""
    /\ \E returned \in Returns(agent.awaiting, agent.results) :
          agent' = [agent EXCEPT
                      !.results = (agent.awaiting :> returned) @@ agent.results,
                      !.trace = Append(@, <<agent.awaiting, "returned">>),
                      !.awaiting = "",
                      !.stage = @ + 1]
    /\ UNCHANGED <<matcher_vars, validator, retry, detector, normalizer, executions>>

\* The flow returns to the request handler.
FlowReturns ==
    /\ agent.pc = "flow"
    /\ agent.awaiting = ""
    /\ agent.stage > Len(Stages(agent.mode))
    /\ agent' = [agent EXCEPT !.pc = "done"]
    /\ UNCHANGED <<matcher_vars, validator, retry, detector, normalizer, executions>>

NextFlow ==
    \/ ModeStarts
    \/ ModeSkipped
    \/ ModeReturns
    \/ FlowReturns

SpecFlow == InitFlow /\ [][NextFlow]_vars

\* The mode has the event in the trace at the position.
Event(name, what, k) ==
    /\ k \in 1..Len(agent.trace)
    /\ agent.trace[k] = <<name, what>>

\* Extraction and validation have both reported success.
BothSucceeded ==
    /\ "extractor" \in DOMAIN agent.results
    /\ agent.results["extractor"].success
    /\ "validator" \in DOMAIN agent.results
    /\ agent.results["validator"].success

(* C39: in the full and the match flow the matcher is started only after    *)
(* the validator has returned, and only when extraction and validation have  *)
(* both reported success; when one of them failed the flow stores no matcher *)
(* result, and it does not raise.                                            *)
C39_MatcherAfterValidator ==
    (agent # NoAgent) =>
        /\ agent.pc # "raised"
        /\ \A k \in 1..Len(agent.trace) :
              Event("matcher", "started", k) =>
                  /\ \E j \in 1..(k - 1) : Event("validator", "returned", j)
                  /\ BothSucceeded
        /\ ~BothSucceeded => "matcher" \notin DOMAIN agent.results

\* The match flow has returned after an extraction that succeeded and a
\* validation that failed: the matcher was not started.
C39_Witness ==
    /\ agent # NoAgent
    /\ agent.pc = "done"
    /\ agent.mode = "match"
    /\ agent.results["extractor"].success
    /\ Len(agent.results["extractor"].fields) = 2
    /\ "validator" \in DOMAIN agent.results
    /\ ~agent.results["validator"].success
    /\ "matcher" \notin DOMAIN agent.results
    /\ \A k \in 1..Len(agent.trace) : agent.trace[k][1] # "matcher"

====
